---- MODULE Spec2Model ----
(***************************************************************************)
(* Model of the LLM provider abstraction and validated structured-output   *)
(* pipeline of content-ai-agent:                                           *)
(*   - ValidationErrorHandler (src/core/validation_error_handler.py)       *)
(*   - LLMService._safe_generate_content (src/services/llm_service.py)     *)
(*   - ProviderRegistry and the provider factories (src/core/llm/...)      *)
(* Each component has its own specification over the shared variables; the *)
(* components a specification does not exercise stay in their idle state.  *)
(***************************************************************************)
EXTENDS Integers, Sequences, FiniteSets, TLC

\* ------------------------------------------------------------------ bounds
\* Largest max_retries a handler is constructed with.
MaxRetries == 2
\* Largest prompt/completion token count one backend response reports.
MaxTokens == 2
\* random.random() is drawn as r / JitterSteps, r in 0..JitterSteps-1.
JitterSteps == 10
\* Largest attempt index the backoff function is evaluated at.
MaxBackoffAttempt == 9

\* ------------------------------------------------------ program constants
\* validation_error_handler.py:23  delay_between_retries default (seconds)
DelayBetweenRetries == 1
\* validation_error_handler.py:156 cap of the exponential base (seconds)
BackoffCap == 60
\* validation_error_handler.py:159 jitter amplitude, percent of the base
JitterPct == 20
\* validation_error_handler.py:161 floor of the delay (seconds)
BackoffFloor == 1

\* Delays are exact rationals: a delay value d stands for d / DelayDen seconds.
DelayDen == 100 * JitterSteps

None == "None"

Min(a, b) == IF a < b THEN a ELSE b
Max(a, b) == IF a > b THEN a ELSE b

RECURSIVE Pow2(_)
Pow2(n) == IF n = 0 THEN 1 ELSE 2 * Pow2(n - 1)

VARIABLES
    \* --- ValidationErrorHandler.validate_with_retry[_and_usage], one call
    variant,              \* "plain" = validate_with_retry, "usage" = ..._and_usage
    max_retries,          \* self.max_retries
    pc,                   \* position of the call
    attempt,              \* loop variable
    last_error,           \* last_error
    last_response,        \* last_response
    last_llm_response,    \* last_llm_response: [present, usage] (usage variant)
    total_input_tokens,   \* total_input_tokens
    total_output_tokens,  \* total_output_tokens
    sleep,                \* the asyncio.sleep in progress: [kind, delay, attempt]
    outcome,              \* what the call returned or raised
    logged_response,      \* what _log_final_error logged as the last response
    \* --- observation of the call (history)
    calls,                \* invocations of response_generator
    sleeps,               \* asyncio.sleep calls made
    ever_parsed,          \* some attempt's output parsed as JSON
    all_parse_failed,     \* every invocation so far returned unparseable text
    billed_input,         \* sum of prompt tokens over all responses delivered
    billed_output,        \* sum of completion tokens over all responses delivered
    \* --- LLMService._safe_generate_content, one call
    sgc_pc,               \* position of the call
    sgc_inner,            \* attempt number of the inner (transport) retry
    sgc_outer,            \* attempt number of the outer (quota) retry
    sgc_response,         \* the backend response of the last invocation
    sgc_outcome,          \* what the last invocation of the body did
    sgc_invocations,      \* invocations of model.generate_content_async
    \* --- ProviderRegistry and the factories' class attributes
    factories,            \* keys of ProviderRegistry._factories
    initialized,          \* ProviderRegistry._initialized, read with .get(p, False)
    current_provider,     \* ProviderRegistry._current_provider
    constructions,        \* per factory: clients constructed; _client is None iff 0
    reg_last,             \* the last registry call and what it did
    ever_registered,      \* (history) providers register was called for
    ever_initialized,     \* (history) providers initialize succeeded for
    \* --- <Factory>.count_tokens
    ct_last,              \* the last count_tokens call of a factory and its result
    \* --- the schema handed to a factory's start_session
    sch_backend,          \* the factory start_session is called on
    sch_schema,           \* the caller's schema dict, as it is now
    sch_original,         \* (history) the caller's schema dict before the first call
    sch_outputs,          \* the schema documents built by the calls so far
    \* --- AgentOrchestrator.analysis, one request
    orch_pc,              \* position of the request
    orch_base,            \* base_analysis
    orch_refinement,      \* refinement_result
    orch_result,          \* final_refined_result
    orch_error,           \* the exception that left analysis()
    orch_events,          \* (history) calls and ends of the two passes, in order
    \* --- select_baseline_content_id, one call
    bl_contents,          \* the list given to the call
    bl_called,            \* the call has returned
    bl_result,            \* its return value
    \* --- AgentOrchestrator.project_analysis, one request, and the result index
    pa_pc,                \* position of the request
    pa_store,             \* the stored document of the project and content type
    pa_stored_before,     \* (history) the stored document when the request began
    pa_baseline,          \* baseline_content_id
    pa_lookup,            \* (history) what the lookup of the existing document gave
    pa_saves,             \* (history) the documents handed to save_result_by_provider
    pa_return,            \* the value returned to the caller
    pa_error,             \* the exception raised by project_analysis itself
    \* --- StructuredAnalysisResponse validation, one response
    sv_strict,            \* settings.STRICT_VALIDATION
    sv_response,          \* the response being validated
    sv_verdict,           \* accepted or rejected
    \* --- one chat session object
    sess_backend,         \* the backend whose session class it is
    sess_active,          \* the chat session is active
    sess_history,         \* the message history
    sess_last,            \* (history) the last call, its outcome and the state before it
    sess_started,         \* (history) start_chat_session called since construction or reset
    sess_sent,            \* (history) the answered messages since construction or reset
    sess_ops,             \* (history) number of calls made
    \* --- concurrent analysis requests
    req_pc,               \* position of each request
    req_routes            \* (history) what each session start of a request was routed to

retryVars == <<variant, max_retries, pc, attempt, last_error, last_response,
               last_llm_response, total_input_tokens, total_output_tokens, sleep,
               outcome, logged_response, calls, sleeps, ever_parsed,
               all_parse_failed, billed_input, billed_output>>

sgcVars == <<sgc_pc, sgc_inner, sgc_outer, sgc_response, sgc_outcome, sgc_invocations>>

regVars == <<factories, initialized, current_provider, constructions, reg_last,
             ever_registered, ever_initialized>>

ctVars == <<ct_last>>

schemaVars == <<sch_backend, sch_schema, sch_original, sch_outputs>>

orchVars == <<orch_pc, orch_base, orch_refinement, orch_result, orch_error, orch_events>>

blVars == <<bl_contents, bl_called, bl_result>>

paVars == <<pa_pc, pa_store, pa_stored_before, pa_baseline, pa_lookup, pa_saves,
            pa_return, pa_error>>

svVars == <<sv_strict, sv_response, sv_verdict>>

sessVars == <<sess_backend, sess_active, sess_history, sess_last, sess_started,
              sess_sent, sess_ops>>

reqVars == <<req_pc, req_routes>>

moreVars == <<blVars, paVars, svVars, sessVars, reqVars>>

\* What the actions of one component leave alone.
baseVars == <<retryVars, sgcVars, regVars, ctVars, schemaVars>>

OtherThanBl == <<baseVars, orchVars, paVars, svVars, sessVars, reqVars>>

OtherThanPaOrch == <<baseVars, blVars, svVars, sessVars, reqVars>>

OtherThanSv == <<baseVars, orchVars, blVars, paVars, sessVars, reqVars>>

OtherThanSess == <<baseVars, orchVars, blVars, paVars, svVars, reqVars>>

OtherThanReqReg ==
    <<retryVars, sgcVars, ctVars, schemaVars, orchVars, blVars, paVars, svVars,
      sessVars>>

extVars == <<schemaVars, orchVars, moreVars>>

vars == <<retryVars, sgcVars, regVars, ctVars, extVars>>

\* ---------------------------------------------------------------- errors
\* An exception is [type, markers]: its class and which of the keywords of
\* _is_rate_limit_error occur in str(error).lower().
Markers == {"429", "quota", "rate", "limit", "exhausted"}

\* src/core/llm/exceptions.py: LLMError and its subclasses
LLMErrorTypes == {"LLMError", "RateLimitError", "SafetyError", "ContentFilterError",
                  "MaxTokensError", "ProviderNotFoundError",
                  "ProviderNotInitializedError"}

Err(t, m) == [type |-> t, markers |-> m]

\* Exceptions the generation closure raises.  Default messages of exceptions.py:
\* "Rate limit exceeded" holds rate and limit, "Maximum token limit reached"
\* holds limit; the others hold no keyword.  A RateLimitError may be given its
\* own message, and a plain LLMError carries whatever message the provider
\* gave.  ValueError stands for any non-LLM exception.
ClosureErrors ==
    { Err("RateLimitError", {"rate", "limit"}),
      Err("RateLimitError", {}),
      Err("SafetyError", {}),
      Err("ContentFilterError", {}),
      Err("MaxTokensError", {"limit"}),
      Err("ProviderNotFoundError", {}),
      Err("ProviderNotInitializedError", {}),
      Err("LLMError", {}),
      Err("LLMError", {"429"}),
      Err("LLMError", {"quota"}),
      Err("LLMError", {"rate"}),
      Err("LLMError", {"exhausted"}),
      Err("ValueError", {}) }

\* ----------------------------------------------------------------- texts
\* Response texts by what parsing and validation make of them.
Texts == {"valid", "fenced_valid", "trailing_comma", "invalid", "invalid_rate",
          "malformed", "malformed_delimiter", ""}

\* response_str.strip().replace("```json", "").replace("```", "").strip()
StripFences(text) == IF text = "fenced_valid" THEN "valid" ELSE text

\* json.loads: the parsed value, or the JSONDecodeError it raises.
\* "Expecting ',' delimiter" holds the keyword limit; "Expecting value" none.
JsonLoads(text) ==
    CASE text \in {"valid", "invalid", "invalid_rate"} ->
            [ok |-> TRUE, data |-> text]
      [] text = "malformed_delimiter" ->
            [ok |-> FALSE, error |-> Err("JSONDecodeError", {"limit"})]
      [] OTHER ->
            [ok |-> FALSE, error |-> Err("JSONDecodeError", {})]

\* _attempt_json_fixes: trailing commas removed, whitespace collapsed
AttemptJsonFixes(text) == IF text = "trailing_comma" THEN "valid" ELSE text

\* _parse_json_response
ParseJsonResponse(response_str) ==
    LET cleaned == StripFences(response_str)
        first == JsonLoads(cleaned)
        cleaned_attempt == AttemptJsonFixes(cleaned)
    IN  IF first.ok THEN first
        ELSE IF cleaned_attempt /= cleaned /\ JsonLoads(cleaned_attempt).ok
             THEN JsonLoads(cleaned_attempt)
             ELSE first

\* model_class(**parsed_data): the validated object or the ValidationError
ModelClass(data) ==
    CASE data = "valid" -> [ok |-> TRUE, model |-> "validated"]
      [] data = "invalid_rate" -> [ok |-> FALSE, error |-> Err("ValidationError", {"rate"})]
      [] OTHER -> [ok |-> FALSE, error |-> Err("ValidationError", {})]

\* ------------------------------------------------- TokenUsage, LLMResponse
\* src/core/llm/models.py: TokenUsage
TokenUsage(p, c, t) == [prompt_tokens |-> p, completion_tokens |-> c, total_tokens |-> t]

NoError == Err(None, {})
NoLLMResponse == [present |-> FALSE, usage |-> TokenUsage(0, 0, 0)]
NoSleep == [kind |-> "none", delay |-> 0, attempt |-> 0]
NoOutcome == [kind |-> "none", model |-> None, usage |-> TokenUsage(0, 0, 0),
              message |-> None, cause |-> NoError, carried_response |-> None]

\* What one invocation of response_generator does: it returns a text (with the
\* LLMResponse of the call in the usage variant, whose usage the response
\* mappers fill from the backend's counters), or it raises.
GenOutcomes(v) ==
    [kind : {"return"}, text : Texts,
     usage : IF v = "usage"
             THEN {TokenUsage(p, c, p + c) : p \in 1..MaxTokens, c \in 0..MaxTokens}
             ELSE {TokenUsage(0, 0, 0)},
     error : {NoError}]
    \cup
    [kind : {"raise"}, text : {None}, usage : {TokenUsage(0, 0, 0)},
     error : ClosureErrors]

\* ------------------------------------------------ ValidationErrorHandler
\* except (json.JSONDecodeError, ValidationError, LLMError) as e
IsCaught(e) == e.type \in ({"JSONDecodeError", "ValidationError"} \cup LLMErrorTypes)

\* (mutant) the keyword list without "rate" and "429"
is_rate_limit_error_short_list(e) == e.markers \cap {"quota", "limit", "exhausted"} /= {}

\* _is_rate_limit_error: any keyword occurs in str(error).lower()
is_rate_limit_error(e) == e.markers \cap Markers /= {}

\* isinstance(e, RateLimitError) or self._is_rate_limit_error(e)
UsesBackoff(e) == e.type = "RateLimitError" \/ is_rate_limit_error(e)

\* (mutant) the backoff delay without its floor
calculate_backoff_delay_no_floor(a, r) ==
    Min(Pow2(a), BackoffCap) * DelayDen
        + Min(Pow2(a), BackoffCap) * JitterPct * (2 * r - JitterSteps)

\* _calculate_backoff_delay, with random.random() = r / JitterSteps;
\* the result is in units of 1 / DelayDen seconds.
calculate_backoff_delay(a, r) ==
    LET base_delay == Min(Pow2(a), BackoffCap)
        jitter == base_delay * JitterPct * (2 * r - JitterSteps)
    IN  Max(base_delay * DelayDen + jitter, BackoffFloor * DelayDen)

\* for attempt in range(self.max_retries + 1): there is a value after a
LoopContinues(a, mr) == a + 1 \in 0..mr

\* (mutant) a wait after the last attempt too
ShouldRetry_after_last(a, mr) == a <= mr

\* (mutant) the retry test off by one
ShouldRetry_off_by_one(a, mr) == a < mr - 1

\* if attempt < self.max_retries
ShouldRetry(a, mr) == a < mr

\* the message of the terminal ValueError
TerminalMessage(e) == IF e.type = "JSONDecodeError" THEN "parsing" ELSE "validation"

\* _log_final_error: the last response is logged when it is truthy
LoggedResponse(response) == IF response \in {None, ""} THEN None ELSE response

\* (mutant) the last response returned with its own counts
ReturnedUsage_last_only(last, tin, tout) == last

\* the usage written back into the last response before it is returned
ReturnedUsage(last, tin, tout) ==
    [last EXCEPT !.prompt_tokens = tin, !.completion_tokens = tout]

\* the except branch: record the error, then sleep or leave the loop and raise
HandleFailure(e, resp) ==
    /\ last_error' = e
    /\ IF ShouldRetry(attempt, max_retries)
       THEN /\ pc' = "sleeping"
            /\ IF UsesBackoff(e)
               THEN \E r \in 0..(JitterSteps - 1) :
                       sleep' = [kind |-> "backoff",
                                 delay |-> calculate_backoff_delay(attempt, r),
                                 attempt |-> attempt]
               ELSE sleep' = [kind |-> "fixed",
                              delay |-> DelayBetweenRetries * DelayDen,
                              attempt |-> attempt]
            /\ sleeps' = sleeps + 1
            /\ UNCHANGED <<outcome, logged_response>>
       ELSE /\ pc' = "raised"
            /\ logged_response' = LoggedResponse(resp)
            /\ outcome' = [NoOutcome EXCEPT !.kind = "raised",
                                            !.message = TerminalMessage(e),
                                            !.cause = e]
            /\ UNCHANGED <<sleep, sleeps>>

\* One pass of the loop body: from the call of response_generator to the next
\* suspension point (the sleep), the return or the raise.
AttemptWith(G) ==
    /\ pc = "attempt"
    /\ \E g \in G :
        /\ calls' = calls + 1
        /\ all_parse_failed' = (all_parse_failed /\ g.kind = "return"
                                /\ ~ParseJsonResponse(g.text).ok)
        /\ IF g.kind = "raise"
           THEN /\ UNCHANGED <<last_response, last_llm_response, total_input_tokens,
                               total_output_tokens, ever_parsed, billed_input,
                               billed_output>>
                /\ IF IsCaught(g.error)
                   THEN HandleFailure(g.error, last_response)
                   ELSE /\ pc' = "propagated"
                        /\ outcome' = [NoOutcome EXCEPT !.kind = "propagated",
                                                        !.cause = g.error]
                        /\ UNCHANGED <<last_error, sleep, sleeps, logged_response>>
           ELSE LET parsed == ParseJsonResponse(g.text)
                    tin == total_input_tokens + g.usage.prompt_tokens
                    tout == total_output_tokens + g.usage.completion_tokens
                IN  /\ last_response' = g.text
                    /\ last_llm_response' =
                          IF variant = "usage"
                          THEN [present |-> TRUE, usage |-> g.usage]
                          ELSE last_llm_response
                    /\ total_input_tokens' = tin
                    /\ total_output_tokens' = tout
                    /\ billed_input' = billed_input + g.usage.prompt_tokens
                    /\ billed_output' = billed_output + g.usage.completion_tokens
                    /\ ever_parsed' = (ever_parsed \/ parsed.ok)
                    /\ IF ~parsed.ok
                       THEN HandleFailure(parsed.error, g.text)
                       ELSE IF ~ModelClass(parsed.data).ok
                       THEN HandleFailure(ModelClass(parsed.data).error, g.text)
                       ELSE /\ pc' = "returned"
                            /\ outcome' =
                                 [NoOutcome EXCEPT
                                    !.kind = "returned",
                                    !.model = ModelClass(parsed.data).model,
                                    !.usage = IF variant = "usage"
                                              THEN ReturnedUsage(g.usage, tin, tout)
                                              ELSE TokenUsage(0, 0, 0)]
                            /\ UNCHANGED <<last_error, sleep, sleeps, logged_response>>
    /\ UNCHANGED <<variant, max_retries, attempt>>
    /\ UNCHANGED <<sgcVars, regVars, ctVars, extVars>>

Attempt == AttemptWith(GenOutcomes(variant))

\* asyncio.sleep returns: the for loop takes its next value, or, were the
\* range exhausted, falls through to the final raise
Wake ==
    /\ pc = "sleeping"
    /\ sleep' = NoSleep
    /\ IF LoopContinues(attempt, max_retries)
       THEN /\ pc' = "attempt"
            /\ attempt' = attempt + 1
            /\ UNCHANGED <<outcome, logged_response>>
       ELSE /\ pc' = "raised"
            /\ logged_response' = LoggedResponse(last_response)
            /\ outcome' = [NoOutcome EXCEPT !.kind = "raised",
                                            !.message = TerminalMessage(last_error),
                                            !.cause = last_error]
            /\ UNCHANGED attempt
    /\ UNCHANGED <<variant, max_retries, last_error, last_response, last_llm_response,
                   total_input_tokens, total_output_tokens,
                   calls, sleeps, ever_parsed, all_parse_failed, billed_input,
                   billed_output>>
    /\ UNCHANGED <<sgcVars, regVars, ctVars, extVars>>

\* ------------------------------------------------------------------------
\* LLMService._safe_generate_content (src/services/llm_service.py)
\* ------------------------------------------------------------------------
\* src/schemas/enums/finish_reason.py: the codes of FinishReason (IntEnum)
FINISH_REASON_UNSPECIFIED == 0
STOP == 1
MAX_TOKENS == 2
SAFETY == 3
RECITATION == 4
BLOCKLIST == 6
PROHIBITED_CONTENT == 7
SPII == 8
MODEL_ARMOR == 10

\* src/core/config.py: Settings.MAX_OUTPUT_TOKENS
MAX_OUTPUT_TOKENS == 65000

\* stop_after_attempt of the inner (transport) and the outer (quota) retry
InnerMaxAttempts == 3
OuterMaxAttempts == 5

RECURSIVE Pow10(_)
Pow10(n) == IF n = 0 THEN 1 ELSE 10 * Pow10(n - 1)

\* the decimal form of n holds the three digits of code (code >= 100)
HoldsDigits(n, code) == \E k \in 0..9 : (n \div Pow10(k)) % 1000 = code

\* FinishReason.from_value: a value that is no code of the enum (None
\* included, written -1 here) becomes FINISH_REASON_UNSPECIFIED
from_value(v) ==
    IF v \in FINISH_REASON_UNSPECIFIED..MODEL_ARMOR THEN v ELSE FINISH_REASON_UNSPECIFIED

\* (mutant) no error is a quota error
is_quota_error_never(e) == FALSE

\* is_quota_error
is_quota_error(e) ==
    \/ e.type = "ResourceExhausted"
    \/ "429" \in e.markers
    \/ "resource exhausted" \in e.markers

\* is_retryable_error
is_retryable_error(e) ==
    \/ e.type \in {"InternalServerError", "ServiceUnavailable", "DeadlineExceeded"}
    \/ e.markers \cap {"event loop is closed", "connection", "500", "502", "503", "504"} /= {}

\* the status codes that occur in "... MAX_TOKENS limit ({MAX_OUTPUT_TOKENS})."
TruncationKeywords ==
    (IF HoldsDigits(MAX_OUTPUT_TOKENS, 429) THEN {"429"} ELSE {})
    \cup (IF HoldsDigits(MAX_OUTPUT_TOKENS, 500) THEN {"500"} ELSE {})
    \cup (IF HoldsDigits(MAX_OUTPUT_TOKENS, 502) THEN {"502"} ELSE {})
    \cup (IF HoldsDigits(MAX_OUTPUT_TOKENS, 503) THEN {"503"} ELSE {})
    \cup (IF HoldsDigits(MAX_OUTPUT_TOKENS, 504) THEN {"504"} ELSE {})

\* response.text raises (no candidate, no part) instead of giving a string
TextRaises == "<raises>"

\* What model.generate_content_async gives back: response.candidates is
\* non-empty or not, the first candidate's finish_reason, response.text, and
\* the keywords in the text of candidate.safety_ratings.
BackendResponses ==
    [kind : {"response"}, has_candidates : BOOLEAN,
     finish_reason : (FINISH_REASON_UNSPECIFIED..MODEL_ARMOR) \cup {-1},
     text : {"text", "", TextRaises},
     ratings : {{}, {"429"}}]

\* the exceptions model.generate_content_async raises
BackendErrors ==
    { Err("ResourceExhausted", {"429", "resource exhausted"}),
      Err("InternalServerError", {"500"}),
      Err("ServiceUnavailable", {"503"}),
      Err("DeadlineExceeded", {"504"}),
      Err("Exception", {"connection"}),
      Err("Exception", {"429", "connection"}),
      Err("PermissionDenied", {}) }

NoBackendResponse ==
    [kind |-> "none", has_candidates |-> FALSE, finish_reason |-> -1, text |-> None,
     ratings |-> {}]

\* one call of model.generate_content_async: a response, or an exception
BackendOutcomes ==
    [kind : {"response"}, response : BackendResponses, error : {NoError}]
    \cup
    [kind : {"raise"}, response : {NoBackendResponse}, error : BackendErrors]

SgcRaise(e) == [kind |-> "raise", text |-> None, error |-> e]
SgcReturn(t) == [kind |-> "return", text |-> t, error |-> NoError]
NoSgcOutcome == [kind |-> "none", text |-> None, error |-> NoError]

\* the try block of _safe_generate_content, given the backend's response
ExtractText(resp) ==
    LET reason == from_value(resp.finish_reason)
    IN  IF resp.has_candidates /\ resp.text = TextRaises
          THEN SgcRaise(Err("ValueError", {}))            \* len(response.text)
        ELSE IF resp.has_candidates /\ reason = MAX_TOKENS
          THEN SgcRaise(Err("ValueError", TruncationKeywords))
        ELSE IF resp.has_candidates /\ reason = SAFETY
          THEN SgcRaise(Err("ValueError", resp.ratings))
        ELSE IF resp.text = TextRaises
          THEN SgcRaise(Err("ValueError", {}))            \* Cannot extract text
        ELSE SgcReturn(resp.text)

\* One invocation of the decorated function body, and what the two tenacity
\* retries make of its exception: the inner retries a retryable error up to
\* InnerMaxAttempts, the outer retries a quota error up to OuterMaxAttempts,
\* each time running the inner retry afresh; otherwise the error is re-raised.
ModelCall ==
    /\ sgc_pc = "call"
    /\ \E b \in BackendOutcomes :
         LET res == IF b.kind = "response"
                    THEN ExtractText(b.response)
                    ELSE SgcRaise(b.error)
         IN  /\ sgc_invocations' = sgc_invocations + 1
             /\ sgc_response' = b.response
             /\ sgc_outcome' = res
             /\ IF res.kind = "return"
                THEN /\ sgc_pc' = "returned"
                     /\ UNCHANGED <<sgc_inner, sgc_outer>>
                ELSE IF is_retryable_error(res.error) /\ sgc_inner < InnerMaxAttempts
                THEN /\ sgc_pc' = "inner_wait"
                     /\ sgc_inner' = sgc_inner + 1
                     /\ UNCHANGED sgc_outer
                ELSE IF is_quota_error(res.error) /\ sgc_outer < OuterMaxAttempts
                THEN /\ sgc_pc' = "outer_wait"
                     /\ sgc_outer' = sgc_outer + 1
                     /\ sgc_inner' = 1
                ELSE /\ sgc_pc' = "raised"
                     /\ UNCHANGED <<sgc_inner, sgc_outer>>
    /\ UNCHANGED <<retryVars, regVars, ctVars, extVars>>

\* the wait of a retry is over: the body is invoked again
RetryResume ==
    /\ sgc_pc \in {"inner_wait", "outer_wait"}
    /\ sgc_pc' = "call"
    /\ UNCHANGED <<sgc_inner, sgc_outer, sgc_response, sgc_outcome, sgc_invocations>>
    /\ UNCHANGED <<retryVars, regVars, ctVars, extVars>>

InitSgc ==
    /\ sgc_pc = "call"
    /\ sgc_inner = 1
    /\ sgc_outer = 1
    /\ sgc_response = NoBackendResponse
    /\ sgc_outcome = NoSgcOutcome
    /\ sgc_invocations = 0

IdleSgc ==
    /\ sgc_pc = "idle"
    /\ sgc_inner = 1
    /\ sgc_outer = 1
    /\ sgc_response = NoBackendResponse
    /\ sgc_outcome = NoSgcOutcome
    /\ sgc_invocations = 0

\* ------------------------------------------------------------------------
\* ProviderRegistry and the provider factories (src/core/llm)
\* ------------------------------------------------------------------------
\* src/core/llm/enums.py: ProviderType
Providers == {"VERTEX_AI", "OPENAI"}

\* clients one factory constructs at most in a run of the model
MaxConstructions == 2

RegCall(op, arg, result, called, routed, constructed) ==
    [op |-> op, arg |-> arg, result |-> result, factory_called |-> called,
     routed_to |-> routed, constructed |-> constructed]

NoRegCall == RegCall("none", None, "none", FALSE, None, FALSE)

\* (mutant) get_factory without the test of the initialized flag
get_factory_no_flag_test(provider_type, cur, facts, inits) ==
    LET target_provider == IF provider_type /= None THEN provider_type ELSE cur
    IN  IF target_provider = None
          THEN [result |-> "ProviderNotInitializedError", factory |-> None]
        ELSE IF target_provider \notin facts
          THEN [result |-> "ProviderNotFoundError", factory |-> None]
        ELSE [result |-> "ok", factory |-> target_provider]

\* ProviderRegistry.get_factory
get_factory(provider_type, cur, facts, inits) ==
    LET target_provider == IF provider_type /= None THEN provider_type ELSE cur
    IN  IF target_provider = None
          THEN [result |-> "ProviderNotInitializedError", factory |-> None]
        ELSE IF target_provider \notin facts
          THEN [result |-> "ProviderNotFoundError", factory |-> None]
        ELSE IF ~inits[target_provider]
          THEN [result |-> "ProviderNotInitializedError", factory |-> None]
        ELSE [result |-> "ok", factory |-> target_provider]

\* How <Factory>.initialize() ends.  OpenAI raises only before the client is
\* assigned (no package, no API key, the constructor); Vertex AI also after
\* it, when registering the persona configs fails (RuntimeError).
FactoryInitOutcomes(p) ==
    IF p = "OPENAI" THEN {"ok", "raise_before_client"}
    ELSE {"ok", "raise_before_client", "raise_after_client"}

\* <Factory>.initialize() assigns cls._client unconditionally
ConstructsClient(o) == o /= "raise_before_client"

\* ProviderRegistry.register
Register ==
    /\ \E p \in Providers :
         /\ factories' = factories \cup {p}
         /\ initialized' = [initialized EXCEPT ![p] = FALSE]
         /\ ever_registered' = ever_registered \cup {p}
         /\ reg_last' = RegCall("register", p, "ok", FALSE, None, FALSE)
    /\ UNCHANGED <<current_provider, constructions, ever_initialized>>
    /\ UNCHANGED <<retryVars, sgcVars, ctVars, extVars>>

\* ProviderRegistry.initialize
Initialize ==
    /\ \E p \in Providers :
         IF p \notin factories
         THEN /\ reg_last' = RegCall("initialize", p, "ProviderNotFoundError", FALSE,
                                     None, FALSE)
              /\ UNCHANGED <<initialized, current_provider, constructions,
                             ever_initialized>>
         ELSE \E o \in FactoryInitOutcomes(p) :
              /\ constructions[p] < MaxConstructions
              /\ constructions' = IF ConstructsClient(o)
                                  THEN [constructions EXCEPT ![p] = @ + 1]
                                  ELSE constructions
              /\ IF o = "ok"
                 THEN /\ initialized' = [initialized EXCEPT ![p] = TRUE]
                      /\ current_provider' = p
                      /\ ever_initialized' = ever_initialized \cup {p}
                 ELSE UNCHANGED <<initialized, current_provider, ever_initialized>>
              /\ reg_last' = RegCall("initialize", p,
                                     IF o = "ok" THEN "ok" ELSE "InitializeError",
                                     TRUE, p, ConstructsClient(o))
    /\ UNCHANGED <<factories, ever_registered>>
    /\ UNCHANGED <<retryVars, sgcVars, ctVars, extVars>>

\* ProviderRegistry.start_session and .count_tokens: get_factory, then the
\* factory's method, which first constructs the client when _client is None.
RoutedCall(op) ==
    /\ \E arg \in Providers \cup {None} :
         LET g == get_factory(arg, current_provider, factories, initialized)
         IN  IF g.result /= "ok"
             THEN /\ reg_last' = RegCall(op, arg, g.result, FALSE, None, FALSE)
                  /\ UNCHANGED constructions
             ELSE IF constructions[g.factory] = 0
             THEN \E o \in FactoryInitOutcomes(g.factory) :
                  /\ constructions' = IF ConstructsClient(o)
                                      THEN [constructions EXCEPT ![g.factory] = @ + 1]
                                      ELSE constructions
                  /\ reg_last' = RegCall(op, arg,
                                         IF o = "ok" THEN "ok" ELSE "InitializeError",
                                         TRUE, g.factory, ConstructsClient(o))
             ELSE /\ reg_last' = RegCall(op, arg, "ok", TRUE, g.factory, FALSE)
                  /\ UNCHANGED constructions
    /\ UNCHANGED <<factories, initialized, current_provider, ever_registered,
                   ever_initialized>>
    /\ UNCHANGED <<retryVars, sgcVars, ctVars, extVars>>

StartSession == RoutedCall("start_session")

\* ------------------------------------------------------------------------
\* <Factory>.count_tokens
\* ------------------------------------------------------------------------
\* Longest text (in characters) count_tokens is called with.
MaxTextLen == 4

\* vertexai/factory.py:159  len(text) // 2
VertexCharsPerToken == 2
\* openai/factory.py:204, 216  len(text) // 4
OpenAICharsPerToken == 4

\* The length-based estimate of a factory.
Estimate(p, len) ==
    IF p = "VERTEX_AI" THEN len \div VertexCharsPerToken ELSE len \div OpenAICharsPerToken

\* What an exact count of a text of len characters can be.
ExactCounts(len) == 0..len

CtOutcome(kind, value, failure, init) ==
    [kind |-> kind, value |-> value, failure |-> failure, init |-> init]

\* VertexAIProviderFactory.count_tokens: the client is constructed first when
\* it is missing, outside the try; the backend call is inside it.
VertexCountTokens(client_present, len) ==
    LET Inits == IF client_present THEN {"none"} ELSE FactoryInitOutcomes("VERTEX_AI")
        Counted(i) ==
            {CtOutcome("return", n, None, i) : n \in ExactCounts(len)}
            \cup {CtOutcome("return", Estimate("VERTEX_AI", len), "count_tokens", i)}
    IN  UNION {IF i \in {"none", "ok"}
               THEN Counted(i)
               ELSE {CtOutcome("raise", 0, "initialize", i)} : i \in Inits}

\* OpenAIProviderFactory.count_tokens: no client is needed.  ImportError of
\* tiktoken and any error of the default encoding give the estimate; of the
\* model's own encoding only KeyError is caught.
OpenAICountTokens(len) ==
    {CtOutcome("return", Estimate("OPENAI", len), "import", "none")}
    \cup {CtOutcome("return", n, None, "none") : n \in ExactCounts(len)}
    \cup {CtOutcome("raise", 0, f, "none") : f \in {"encoding_for_model", "encode"}}
    \cup {CtOutcome("return", Estimate("OPENAI", len), "default_encoding", "none")}

\* <Factory>.count_tokens(text, model_name)
factory_count_tokens(p, client_present, len) ==
    IF p = "VERTEX_AI" THEN VertexCountTokens(client_present, len)
    ELSE OpenAICountTokens(len)

CtCall(p, len, o, via) ==
    [factory |-> p, len |-> len, kind |-> o.kind, value |-> o.value,
     failure |-> o.failure, via |-> via]

NoCtCall == [factory |-> None, len |-> 0, kind |-> "none", value |-> 0,
             failure |-> None, via |-> None]

\* The effect of one count_tokens call of factory p on the factory's client.
CountOnFactory(p, len, o, via) ==
    /\ o.init \in {"ok", "raise_after_client"} => constructions[p] < MaxConstructions
    /\ constructions' = IF o.init \in {"ok", "raise_after_client"}
                        THEN [constructions EXCEPT ![p] = @ + 1]
                        ELSE constructions
    /\ ct_last' = CtCall(p, len, o, via)

\* <Factory>.count_tokens called on the factory class itself
FactoryCountTokens ==
    /\ \E p \in Providers, len \in 0..MaxTextLen :
         \E o \in factory_count_tokens(p, constructions[p] > 0, len) :
            /\ CountOnFactory(p, len, o, "factory")
            /\ reg_last' = NoRegCall
    /\ UNCHANGED <<factories, initialized, current_provider, ever_registered,
                   ever_initialized>>
    /\ UNCHANGED <<retryVars, sgcVars, extVars>>

\* ProviderRegistry.count_tokens: get_factory, then the factory's count_tokens
CountTokens ==
    /\ \E arg \in Providers \cup {None}, len \in 0..MaxTextLen :
         LET g == get_factory(arg, current_provider, factories, initialized)
         IN  IF g.result /= "ok"
             THEN /\ reg_last' = RegCall("count_tokens", arg, g.result, FALSE, None, FALSE)
                  /\ ct_last' = NoCtCall
                  /\ UNCHANGED constructions
             ELSE \E o \in factory_count_tokens(g.factory, constructions[g.factory] > 0, len) :
                  /\ CountOnFactory(g.factory, len, o, "registry")
                  /\ reg_last' = RegCall("count_tokens", arg,
                                         IF o.kind = "return" THEN "ok" ELSE "CountError",
                                         TRUE, g.factory,
                                         o.init \in {"ok", "raise_after_client"})
    /\ UNCHANGED <<factories, initialized, current_provider, ever_registered,
                   ever_initialized>>
    /\ UNCHANGED <<retryVars, sgcVars, extVars>>

IdleCt == ct_last = NoCtCall

\* After the module is loaded: each provider whose import succeeded is
\* registered, none is initialized, none is selected.
InitRegistry ==
    /\ factories \in SUBSET Providers
    /\ initialized = [p \in Providers |-> FALSE]
    /\ current_provider = None
    /\ constructions = [p \in Providers |-> 0]
    /\ reg_last = NoRegCall
    /\ ever_registered = factories
    /\ ever_initialized = {}

IdleRegistry ==
    /\ factories = {}
    /\ initialized = [p \in Providers |-> FALSE]
    /\ current_provider = None
    /\ constructions = [p \in Providers |-> 0]
    /\ reg_last = NoRegCall
    /\ ever_registered = {}
    /\ ever_initialized = {}

IdleRetry ==
    /\ variant = "plain"
    /\ max_retries = 0
    /\ pc = "idle"
    /\ attempt = 0
    /\ last_error = NoError
    /\ last_response = None
    /\ last_llm_response = NoLLMResponse
    /\ total_input_tokens = 0
    /\ total_output_tokens = 0
    /\ sleep = NoSleep
    /\ outcome = NoOutcome
    /\ logged_response = None
    /\ calls = 0
    /\ sleeps = 0
    /\ ever_parsed = FALSE
    /\ all_parse_failed = TRUE
    /\ billed_input = 0
    /\ billed_output = 0

\* ------------------------------------------------------------------------
\* The schema adapter: OpenAIProviderFactory._build_json_schema_format and
\* _convert_schema_for_openai; VertexAIProviderFactory.start_session
\* ------------------------------------------------------------------------
\* A JSON Schema node (a dict) is a function from its keys to their values:
\* "type", "title", "description" are strings; "properties", "$defs" and
\* "definitions" are functions from names to nodes; "items" is a node;
\* "allOf", "anyOf", "oneOf" are sequences of nodes; "required" is the set
\* of the names in the list; "additionalProperties" is a boolean; "$ref" is
\* the reference path split at "/".

\* Nesting depth of the domain schemas.
SchemaDepth == 2
\* Calls of start_session with the same schema.
MaxAdapterCalls == 2

\* dict.get(k, default)
Get(schema, k, default) == IF k \in DOMAIN schema THEN schema[k] ELSE default

\* schema[k] = v
Put(schema, k, v) == [x \in DOMAIN schema \cup {k} |-> IF x = k THEN v ELSE schema[x]]

\* del schema[k]
Drop(schema, k) == [x \in DOMAIN schema \ {k} |-> schema[x]]

\* (mutant) the loop over the combinators without anyOf
Combinators_without_anyOf == {"allOf", "oneOf"}

\* openai/factory.py:179  for combinator in ["allOf", "anyOf", "oneOf"]
Combinators == {"allOf", "anyOf", "oneOf"}

\* openai/factory.py:154  .replace("#/$defs/", "#/definitions/"); "#" occurs
\* only as the first segment of a path.
ReplaceDefsPath(path) ==
    IF Len(path) >= 3 /\ path[1] = "#" /\ path[2] = "$defs"
    THEN [path EXCEPT ![2] = "definitions"]
    ELSE path

\* OpenAIProviderFactory._convert_schema_for_openai
RECURSIVE convert_schema_for_openai(_)
convert_schema_for_openai(schema) ==
    LET renamed ==
            IF "$defs" \in DOMAIN schema
            THEN Put(Drop(schema, "$defs"), "definitions",
                     [k \in DOMAIN schema["$defs"] |->
                          convert_schema_for_openai(schema["$defs"][k])])
            ELSE schema
    IN  IF "$ref" \in DOMAIN renamed
        THEN ("$ref" :> ReplaceDefsPath(renamed["$ref"]))
        ELSE
        LET closed ==
                IF Get(renamed, "type", None) = "object"
                THEN LET c == Put(renamed, "additionalProperties", FALSE)
                     IN  IF "properties" \in DOMAIN c
                         THEN Put(c, "required", DOMAIN c["properties"])
                         ELSE c
                ELSE renamed
            props ==
                IF "properties" \in DOMAIN closed
                THEN Put(closed, "properties",
                         [k \in DOMAIN closed["properties"] |->
                              convert_schema_for_openai(closed["properties"][k])])
                ELSE closed
            items ==
                IF "items" \in DOMAIN props
                THEN Put(props, "items", convert_schema_for_openai(props["items"]))
                ELSE props
        IN  [k \in DOMAIN items |->
                IF k \in Combinators
                THEN [i \in DOMAIN items[k] |-> convert_schema_for_openai(items[k][i])]
                ELSE items[k]]

\* (mutant) the conversion applied to the caller's dict itself
CallerSchemaAfter_in_place(schema, converted) == converted

\* openai/factory.py:117  the conversion works on copy.deepcopy(schema): the
\* caller's dict is what it was.
CallerSchemaAfter(schema, converted) == schema

\* OpenAIProviderFactory._build_json_schema_format (the returned dict)
build_json_schema_format(schema, converted) ==
    [type |-> "json_schema",
     json_schema |-> [name |-> Get(schema, "title", "response_schema"),
                      strict |-> TRUE,
                      schema |-> converted]]

AdapterReturn(document) == [kind |-> "return", document |-> document]

\* --- the domain schemas: what model_json_schema() gives for a domain type
StringNode == [type |-> "string"]
NullNode == [type |-> "null"]
RefTo(name) == ("$ref" :> <<"#", "$defs", name>>)
DescribedRef(name) == Put(RefTo(name), "description", "d")
OpenObject == [type |-> "object", additionalProperties |-> TRUE]
ArrayOf(n) == [type |-> "array", items |-> n]
ObjectWith(n) ==
    [type |-> "object", title |-> "T", properties |-> [a |-> n, b |-> StringNode],
     required |-> {"a"}]
UnionOf(c, n) == (c :> <<n, NullNode>>)

Leaves == {StringNode, RefTo("A"), DescribedRef("A"), OpenObject}

RECURSIVE SchemaNodes(_)
SchemaNodes(d) ==
    IF d = 0 THEN Leaves
    ELSE LET S == SchemaNodes(d - 1)
         IN  Leaves \cup {ArrayOf(n) : n \in S} \cup {ObjectWith(n) : n \in S}
                    \cup {UnionOf(c, n) : c \in {"allOf", "anyOf", "oneOf"}, n \in S}

\* A model with a nested model A, and a self-referencing model A (its root
\* is the reference, next to the container).
DomainSchemas ==
    LET S == SchemaNodes(SchemaDepth - 1)
    IN  {Put(ObjectWith(n), "$defs", [A |-> d]) : n \in S, d \in S}
        \cup {Put(RefTo("A"), "$defs", [A |-> d]) : d \in S}

\* OpenAIProviderFactory.start_session with a JSON persona and a schema
OpenAIStartSession ==
    /\ sch_backend = "OPENAI"
    /\ Len(sch_outputs) < MaxAdapterCalls
    /\ LET converted == convert_schema_for_openai(sch_schema)
       IN  /\ sch_outputs' = Append(sch_outputs,
                                    AdapterReturn(build_json_schema_format(sch_schema,
                                                                           converted)))
           /\ sch_schema' = CallerSchemaAfter(sch_schema, converted)
    /\ UNCHANGED <<sch_backend, sch_original>>
    /\ UNCHANGED <<retryVars, sgcVars, regVars, ctVars, orchVars, moreVars>>

\* VertexAIProviderFactory.start_session: the schema dict goes to the session
\* config as it is.
VertexStartSession ==
    /\ sch_backend = "VERTEX_AI"
    /\ Len(sch_outputs) < MaxAdapterCalls
    /\ sch_outputs' = Append(sch_outputs, AdapterReturn(sch_schema))
    /\ UNCHANGED <<sch_backend, sch_schema, sch_original>>
    /\ UNCHANGED <<retryVars, sgcVars, regVars, ctVars, orchVars, moreVars>>

InitSchema ==
    /\ sch_backend \in Providers
    /\ sch_schema \in DomainSchemas
    /\ sch_original = sch_schema
    /\ sch_outputs = <<>>

IdleSchema ==
    /\ sch_backend = None
    /\ sch_schema = NullNode
    /\ sch_original = NullNode
    /\ sch_outputs = <<>>

\* ------------------------------------------------------------------------
\* AgentOrchestrator.analysis (src/services/orchestrator.py)
\* ------------------------------------------------------------------------
\* Most categories a structuring result holds.
MaxCategories == 2
\* Most categories a refinement result holds.
MaxRefined == 2
MaxContentId == 2
MaxTime == 3
MaxStoredVersion == 2
MaxSessionOps == 4
MaxRequests == 2

\* category keys the structuring pass reports, and one more the refinement
\* pass may invent
StructuringKeys == {"k1", "k2"}
RefinementKeys == StructuringKeys \cup {"k3"}

\* HighlightItem of a category
Highlight(key) == [id |-> 1, keyword |-> <<"keyword", key>>,
                   highlight |-> <<"highlight", key>>, content |-> <<"content", key>>]

\* One category of the structuring result (base_cat).
BaseCategory(key) ==
    [name |-> <<"name", key>>,
     key |-> key,
     summary |-> <<"summary", key>>,
     keywords |-> <<"keyword", key>>,
     display_highlight |-> <<"keyword", key>>,
     sentiment_type |-> IF key = "k1" THEN "positive" ELSE "negative",
     positive_contents |-> IF key = "k1" THEN <<1, 2>> ELSE <<>>,
     negative_contents |-> IF key = "k1" THEN <<>> ELSE <<3>>,
     highlights |-> <<Highlight(key)>>]

SeqsUpTo(S, n) == UNION {[1..k -> S] : k \in 0..n}

\* base_analysis: what structure_content_analysis returns
StructuringResults ==
    {[summary |-> "overall", keywords |-> <<"kw">>, good_points |-> <<"good">>,
      caution_points |-> <<"caution">>,
      categories |-> [i \in DOMAIN ks |-> BaseCategory(ks[i])]] :
        ks \in SeqsUpTo(StructuringKeys, MaxCategories)}

\* One category of the refinement result; v tells two texts for a key apart.
RefinedCategory(key, v) ==
    [key |-> key, summary |-> <<"refined summary", key, v>>,
     keywords |-> <<"refined keyword", key, v>>]

\* refinement_result: what refine_analysis_summary returns
RefinementResults ==
    {[summary |-> s, keywords |-> <<"refined kw">>, good_points |-> <<"refined good">>,
      caution_points |-> <<"refined caution">>, categories |-> cs] :
        s \in {"refined overall", ""},
        cs \in SeqsUpTo({RefinedCategory(k, v) : k \in RefinementKeys, v \in 1..2},
                        MaxRefined)}

NoAnalysis == [summary |-> None, keywords |-> <<>>, good_points |-> <<>>,
               caution_points |-> <<>>, categories |-> <<>>]

\* How a pass of the analysis service ends.
PassReturn(result) == [kind |-> "return", result |-> result, error |-> None]
PassRaise(e) == [kind |-> "raise", result |-> NoAnalysis, error |-> e]
PassErrors == {"ValueError", "LLMError"}
StructuringOutcomes ==
    {PassReturn(r) : r \in StructuringResults} \cup {PassRaise(e) : e \in PassErrors}
RefinementOutcomes ==
    {PassReturn(r) : r \in RefinementResults} \cup {PassRaise(e) : e \in PassErrors}

\* orchestrator.py:127-136  the projection handed to the refinement pass
refine_content_items(base_analysis) ==
    [summary |-> base_analysis.summary,
     keywords |-> base_analysis.keywords,
     good_points |-> base_analysis.good_points,
     caution_points |-> base_analysis.caution_points,
     categories |-> [i \in DOMAIN base_analysis.categories |->
                        [key |-> base_analysis.categories[i].key,
                         summary |-> base_analysis.categories[i].summary,
                         keywords |-> base_analysis.categories[i].keywords]]]

\* the index of the last category with this key
LastIndexOf(cats, key) ==
    CHOOSE i \in DOMAIN cats :
        /\ cats[i].key = key
        /\ \A j \in DOMAIN cats : cats[j].key = key => j <= i

\* orchestrator.py:151-154  the dict comprehension: a later category of the
\* same key overwrites the earlier one
refined_map(categories) ==
    [k \in {categories[i].key : i \in DOMAIN categories} |->
        [summary |-> categories[LastIndexOf(categories, k)].summary,
         keywords |-> categories[LastIndexOf(categories, k)].keywords]]

\* (mutant) the merge that never takes the refined texts
final_category_keep_original(base_cat, rmap) ==
    [name |-> base_cat.name,
     key |-> base_cat.key,
     summary |-> base_cat.summary,
     keywords |-> base_cat.keywords,
     display_highlight |-> base_cat.display_highlight,
     sentiment_type |-> base_cat.sentiment_type,
     positive_count |-> Len(base_cat.positive_contents),
     negative_count |-> Len(base_cat.negative_contents),
     highlights |-> base_cat.highlights]

\* orchestrator.py:158-181  one RefineCategoryItem of the final result
final_category(base_cat, rmap) ==
    LET refined == base_cat.key \in DOMAIN rmap
    IN  [name |-> base_cat.name,
         key |-> base_cat.key,
         summary |-> IF refined THEN rmap[base_cat.key].summary ELSE base_cat.summary,
         keywords |-> IF refined THEN rmap[base_cat.key].keywords ELSE base_cat.keywords,
         display_highlight |-> base_cat.display_highlight,
         sentiment_type |-> base_cat.sentiment_type,
         positive_count |-> Len(base_cat.positive_contents),
         negative_count |-> Len(base_cat.negative_contents),
         highlights |-> [h \in DOMAIN base_cat.highlights |->
                            [id |-> base_cat.highlights[h].id,
                             keyword |-> base_cat.highlights[h].keyword,
                             highlight |-> base_cat.highlights[h].highlight,
                             content |-> base_cat.highlights[h].content]]]

\* (mutant) the loop that keeps only the categories the refinement covers
refined_categories_only_refined(base_categories, rmap) ==
    LET kept == SelectSeq(base_categories, LAMBDA c : c.key \in DOMAIN rmap)
    IN  [i \in DOMAIN kept |-> final_category(kept[i], rmap)]

\* orchestrator.py:149-181  for base_cat in base_analysis.categories
refined_categories(base_categories, rmap) ==
    [i \in DOMAIN base_categories |-> final_category(base_categories[i], rmap)]

\* (mutant) the final result with the structuring pass's overall summary
final_refined_result_base_summary(base_analysis, refinement_result) ==
    [summary |-> base_analysis.summary,
     keywords |-> refinement_result.keywords,
     good_points |-> refinement_result.good_points,
     caution_points |-> refinement_result.caution_points,
     categories |-> refined_categories(base_analysis.categories,
                                       refined_map(refinement_result.categories))]

\* orchestrator.py:183-189  StructuredAnalysisRefineResult(...)
final_refined_result(base_analysis, refinement_result) ==
    [summary |-> refinement_result.summary,
     keywords |-> refinement_result.keywords,
     good_points |-> refinement_result.good_points,
     caution_points |-> refinement_result.caution_points,
     categories |-> refined_categories(base_analysis.categories,
                                       refined_map(refinement_result.categories))]

\* (mutant) the refinement pass runs whatever the structuring pass did
ReachesRefinement_always(o) == TRUE

\* orchestrator.py:113-138  an exception of the structuring pass leaves
\* analysis(); only its return value reaches the refinement pass
ReachesRefinement(o) == o.kind = "return"

Event(pass, what, input) == [pass |-> pass, what |-> what, input |-> input]

\* analysis(): contents validated, the structuring pass is awaited
StartStructuring ==
    /\ orch_pc = "start"
    /\ orch_pc' = "structuring"
    /\ orch_events' = Append(orch_events, Event("structure", "call", NoAnalysis))
    /\ UNCHANGED <<orch_base, orch_refinement, orch_result, orch_error>>
    /\ UNCHANGED <<retryVars, sgcVars, regVars, ctVars, schemaVars, moreVars>>

\* the structuring pass ends: its error leaves analysis(), its result is
\* projected and the refinement pass is awaited
StructuringEnds ==
    /\ orch_pc = "structuring"
    /\ \E o \in StructuringOutcomes :
         /\ orch_base' = o.result
         /\ IF ReachesRefinement(o)
            THEN /\ orch_pc' = "refining"
                 /\ orch_events' =
                        orch_events \o
                        <<Event("structure", o.kind, NoAnalysis),
                          Event("refine", "call", refine_content_items(o.result))>>
                 /\ UNCHANGED orch_error
            ELSE /\ orch_pc' = "failed"
                 /\ orch_error' = o.error
                 /\ orch_events' = Append(orch_events,
                                          Event("structure", o.kind, NoAnalysis))
    /\ UNCHANGED <<orch_refinement, orch_result>>
    /\ UNCHANGED <<retryVars, sgcVars, regVars, ctVars, schemaVars, moreVars>>

\* the refinement pass ends: its error leaves analysis(), its result is
\* merged into the final result
RefinementEnds ==
    /\ orch_pc = "refining"
    /\ \E o \in RefinementOutcomes :
         /\ orch_refinement' = o.result
         /\ orch_events' = Append(orch_events, Event("refine", o.kind, NoAnalysis))
         /\ IF o.kind = "return"
            THEN /\ orch_pc' = "done"
                 /\ orch_result' = final_refined_result(orch_base, o.result)
                 /\ UNCHANGED orch_error
            ELSE /\ orch_pc' = "failed"
                 /\ orch_error' = o.error
                 /\ UNCHANGED orch_result
    /\ UNCHANGED orch_base
    /\ UNCHANGED <<retryVars, sgcVars, regVars, ctVars, schemaVars, moreVars>>

InitOrchestrator ==
    /\ orch_pc = "start"
    /\ orch_base = NoAnalysis
    /\ orch_refinement = NoAnalysis
    /\ orch_result = NoAnalysis
    /\ orch_error = None
    /\ orch_events = <<>>

IdleOrchestrator ==
    /\ orch_pc = "idle"
    /\ orch_base = NoAnalysis
    /\ orch_refinement = NoAnalysis
    /\ orch_result = NoAnalysis
    /\ orch_error = None
    /\ orch_events = <<>>

\* ------------------------------------------------------------------------
\* AgentOrchestrator.select_baseline_content_id
\* (src/services/orchestrator.py:296-323)
\* ------------------------------------------------------------------------
\* A ContentItem as the selection reads it: content_id and the two optional
\* timestamps. An absent timestamp (None) is written NoTime, the None that
\* the selection returns for an empty list NoContentId.
NoTime == 0

NoContentId == 0

Times == {NoTime} \cup (1 .. MaxTime)

ContentItems ==
    [content_id : 1 .. MaxContentId, created_at : Times, updated_at : Times]

\* Lists of items with distinct ids.
ContentLists ==
    {l \in SeqsUpTo(ContentItems, MaxContentId) :
        \A i, j \in 1 .. Len(l) : l[i].content_id = l[j].content_id => i = j}

\* es_content_retrieval_service.py:98-104  the items retrieved for a
\* project carry no timestamp
RetrievedContents ==
    {l \in ContentLists :
        \A i \in 1 .. Len(l) : l[i].created_at = NoTime /\ l[i].updated_at = NoTime}

\* (mutant) the created timestamp first
get_latest_time_created_first(c) ==
    IF c.created_at # NoTime THEN c.created_at ELSE c.updated_at

\* orchestrator.py:316-317  c.updated_at or c.created_at
get_latest_time(c) ==
    IF c.updated_at # NoTime THEN c.updated_at ELSE c.created_at

\* Python's max(list, key=...): the place of the first item whose key no
\* item exceeds, given the keys of the items in order.
FirstMax(keys) ==
    CHOOSE i \in 1 .. Len(keys) :
        /\ \A j \in 1 .. Len(keys) : keys[j] <= keys[i]
        /\ \A j \in 1 .. (i - 1) : keys[j] < keys[i]

select_baseline_content_id(contents) ==
    IF contents = <<>> THEN NoContentId
    ELSE LET HasTime(c) == c.updated_at # NoTime \/ c.created_at # NoTime
             contents_with_time == SelectSeq(contents, HasTime)
             times == [i \in DOMAIN contents_with_time |->
                          get_latest_time(contents_with_time[i])]
             ids == [i \in DOMAIN contents |-> contents[i].content_id]
         IN IF contents_with_time # <<>>
            THEN contents_with_time[FirstMax(times)].content_id
            ELSE contents[FirstMax(ids)].content_id

\* One call of select_baseline_content_id on the list bl_contents.
SelectBaseline ==
    /\ ~bl_called
    /\ bl_called' = TRUE
    /\ bl_result' = select_baseline_content_id(bl_contents)
    /\ UNCHANGED bl_contents
    /\ UNCHANGED OtherThanBl

InitBaseline ==
    /\ bl_contents \in ContentLists
    /\ bl_called = FALSE
    /\ bl_result = NoContentId

IdleBaseline ==
    /\ bl_contents = <<>>
    /\ bl_called = FALSE
    /\ bl_result = NoContentId

\* ------------------------------------------------------------------------
\* AgentOrchestrator.project_analysis and the stored analysis result
\* (src/services/orchestrator.py:209-282,
\*  src/services/es_content_analysis_result_service.py:90-175)
\* ------------------------------------------------------------------------
\* The result index holds at most one document per project, project type
\* and content type: _generate_doc_id gives every save of them the same id.
\* A document is read here by its version and creation time.
Document(version, created_at) == [version |-> version, created_at |-> created_at]

\* No document (None).
NoDocument == Document(0, "never")

StoredBefore ==
    {NoDocument} \cup {Document(v, "earlier") : v \in 1 .. MaxStoredVersion}

\* es_content_analysis_result_service.py:96-127  _get_result: the newest
\* document, None when there is none, and None when the search fails
get_result(store, search_ok) ==
    IF search_ok THEN [kind |-> "return", doc |-> store]
    ELSE [kind |-> "return", doc |-> NoDocument]

\* orchestrator.py:257
next_version(existing_doc) ==
    IF existing_doc # NoDocument THEN existing_doc.version + 1 ELSE 1

\* orchestrator.py:260-270
new_document(existing_doc) ==
    Document(next_version(existing_doc),
             IF existing_doc # NoDocument THEN existing_doc.created_at ELSE "now")

\* orchestrator.py:239-248  analysis() is awaited outside the try block:
\* only its return reaches the persistence block
ReachesPersistence(analysis_pc) == analysis_pc = "done"

\* (mutant) the exception of the persistence block leaves project_analysis
AfterPersistence_reraise(persisted) ==
    IF persisted THEN "returned" ELSE "raised"

\* orchestrator.py:275-281  the exception is logged, the result returned
AfterPersistence(persisted) == "returned"

\* What the caller of project_analysis has got.
ProjectOutcome ==
    IF pa_pc = "raised" THEN [kind |-> "raise", error |-> pa_error]
    ELSE IF pa_pc = "analysing" /\ orch_pc = "failed"
         THEN [kind |-> "raise", error |-> orch_error]
    ELSE IF pa_pc = "returned" THEN [kind |-> "return", error |-> None]
    ELSE [kind |-> "pending", error |-> None]

\* orchestrator.py:223-245  the contents are retrieved; a failed retrieval
\* and an empty list raise; otherwise the baseline is selected and
\* analysis() is awaited
RetrieveContents ==
    /\ pa_pc = "retrieving"
    /\ \E o \in {[kind |-> "raise", contents |-> <<>>]} \cup
                {[kind |-> "return", contents |-> l] : l \in RetrievedContents} :
         IF o.kind = "raise"
         THEN /\ pa_pc' = "raised"
              /\ pa_error' = "RuntimeError"
              /\ UNCHANGED <<pa_baseline, orchVars>>
         ELSE IF o.contents = <<>>
         THEN /\ pa_pc' = "raised"
              /\ pa_error' = "ValueError"
              /\ UNCHANGED <<pa_baseline, orchVars>>
         ELSE /\ pa_pc' = "analysing"
              /\ pa_baseline' = select_baseline_content_id(o.contents)
              /\ orch_pc' = "start"
              /\ UNCHANGED <<pa_error, orch_base, orch_refinement, orch_result,
                             orch_error, orch_events>>
    /\ UNCHANGED <<pa_store, pa_stored_before, pa_lookup, pa_saves, pa_return>>
    /\ UNCHANGED OtherThanPaOrch

\* orchestrator.py:247-281  the persistence block and the return
PersistResult ==
    /\ pa_pc = "analysing"
    /\ ReachesPersistence(orch_pc)
    /\ \E search_ok \in BOOLEAN, save_ok \in BOOLEAN :
         LET found == get_result(pa_store, search_ok)
             document == new_document(found.doc)
             persisted == found.kind = "return" /\ save_ok
         IN /\ pa_lookup' = [search_ok |-> search_ok, kind |-> found.kind,
                             doc |-> found.doc]
            /\ pa_saves' = IF found.kind = "return"
                           THEN Append(pa_saves, document) ELSE pa_saves
            /\ pa_store' = IF persisted THEN document ELSE pa_store
            /\ pa_pc' = AfterPersistence(persisted)
            /\ pa_error' = IF AfterPersistence(persisted) = "raised"
                           THEN "Exception" ELSE pa_error
            /\ pa_return' = IF AfterPersistence(persisted) = "returned"
                            THEN orch_result ELSE pa_return
    /\ UNCHANGED <<pa_baseline, pa_stored_before>>
    /\ UNCHANGED <<orchVars, OtherThanPaOrch>>

NoLookup == [search_ok |-> FALSE, kind |-> None, doc |-> NoDocument]

InitProject ==
    /\ pa_pc = "retrieving"
    /\ pa_store \in StoredBefore
    /\ pa_stored_before = pa_store
    /\ pa_baseline = NoContentId
    /\ pa_lookup = NoLookup
    /\ pa_saves = <<>>
    /\ pa_return = NoAnalysis
    /\ pa_error = None

IdleProject ==
    /\ pa_pc = "idle"
    /\ pa_store = NoDocument
    /\ pa_stored_before = NoDocument
    /\ pa_baseline = NoContentId
    /\ pa_lookup = NoLookup
    /\ pa_saves = <<>>
    /\ pa_return = NoAnalysis
    /\ pa_error = None

\* ------------------------------------------------------------------------
\* StructuredAnalysisResponse, the domain validation of a structuring result
\* (src/schemas/models/prompt/structured_analysis_response.py:11-114)
\* ------------------------------------------------------------------------
\* A response as the three validators read it: the categories with their
\* key and the ids of their positive and negative contents, the harmful ids
\* and the ids of the excluded (etc) contents. The checks that
\* CategorySummary makes on one category alone are taken as passed.
IdLists == {<<>>} \cup {<<i>> : i \in 1 .. MaxContentId}

ResponseCategory ==
    [category_key : StructuringKeys, positive_contents : IdLists,
     negative_contents : IdLists]

ResponseCategoryLists ==
    {<<>>} \cup {<<c>> : c \in ResponseCategory}
           \cup {<<c, d>> : c \in ResponseCategory, d \in ResponseCategory}

StructuredAnalysisResponses ==
    [categories : ResponseCategoryLists, harmful_contents : IdLists,
     etc_contents : IdLists]

\* structured_analysis_response.py:33
MaxCategoryCount == 20

RECURSIVE Flatten(_)
Flatten(ss) == IF ss = <<>> THEN <<>> ELSE Head(ss) \o Flatten(Tail(ss))

\* structured_analysis_response.py:95-110  the ids of the categories in the
\* order the validator walks them
CategoryContentIds(categories) ==
    Flatten([i \in DOMAIN categories |->
                categories[i].positive_contents \o categories[i].negative_contents])

Range(s) == {s[i] : i \in DOMAIN s}

\* structured_analysis_response.py:26-35
validate_categorys_count(strict, v) ==
    IF ~strict THEN "ok"
    ELSE IF Len(v) > MaxCategoryCount THEN "ValueError" ELSE "ok"

\* structured_analysis_response.py:37-48
validate_unique_category_keys(strict, v) ==
    IF ~strict THEN "ok"
    ELSE IF Len(v) # Cardinality({v[i].category_key : i \in DOMAIN v})
         THEN "ValueError" ELSE "ok"

\* structured_analysis_response.py:77-110  an id of the field is already
\* used by an earlier field or by an earlier entry of the field
RepeatsAnId(ids, used_content_ids) ==
    \E i \in DOMAIN ids :
        \/ ids[i] \in used_content_ids
        \/ \E j \in 1 .. (i - 1) : ids[j] = ids[i]

\* structured_analysis_response.py:50-114
validate_no_content_id_duplication(strict, ids, used_content_ids) ==
    IF ~strict THEN "ok"
    ELSE IF RepeatsAnId(ids, used_content_ids) THEN "ValueError" ELSE "ok"

\* Validation of a response, field by field in the order of declaration
\* (categories, harmful_contents, etc_contents); info.data holds the fields
\* validated without error so far.
model_validate(strict, r) ==
    LET category_ids == CategoryContentIds(r.categories)
        categories_ok ==
            /\ validate_categorys_count(strict, r.categories) = "ok"
            /\ validate_unique_category_keys(strict, r.categories) = "ok"
            /\ validate_no_content_id_duplication(strict, category_ids, {}) = "ok"
        used_by_categories == IF categories_ok THEN Range(category_ids) ELSE {}
        harmful_ok ==
            validate_no_content_id_duplication(strict, r.harmful_contents,
                                               used_by_categories) = "ok"
        used_by_harmful == IF harmful_ok THEN Range(r.harmful_contents) ELSE {}
        etc_ok ==
            validate_no_content_id_duplication(
                strict, r.etc_contents, used_by_categories \cup used_by_harmful) = "ok"
    IN IF categories_ok /\ harmful_ok /\ etc_ok THEN "accepted" ELSE "rejected"

\* One response of the structuring pass is validated.
ValidateResponse ==
    /\ sv_verdict = "none"
    /\ sv_verdict' = model_validate(sv_strict, sv_response)
    /\ UNCHANGED <<sv_strict, sv_response>>
    /\ UNCHANGED OtherThanSv

\* config.py:96-98  STRICT_VALIDATION is False unless the environment sets it
InitValidation ==
    /\ sv_strict \in BOOLEAN
    /\ sv_response \in StructuredAnalysisResponses
    /\ sv_verdict = "none"

IdleValidation ==
    /\ sv_strict = FALSE
    /\ sv_response = [categories |-> <<>>, harmful_contents |-> <<>>,
                      etc_contents |-> <<>>]
    /\ sv_verdict = "none"

\* ------------------------------------------------------------------------
\* Chat sessions of the two backends
\* (src/core/llm/base/session.py:9-63,
\*  src/core/llm/providers/openai/session.py:13-120,
\*  src/core/llm/providers/google/vertexai/session.py:16-121)
\* ------------------------------------------------------------------------
\* One session object of the backend sess_backend. sess_active is
\* _chat_session_active (OpenAI) or _chat_session is not None (Vertex AI);
\* sess_history is _chat_history or _message_history, read by role and
\* content.
Messages == {"m1", "m2"}

Reply == "r1"

Entry(role, content) == [role |-> role, content |-> content]

\* openai/session.py:98, vertexai/session.py:98-102
ReplyRole(backend) == IF backend = "OPENAI" THEN "assistant" ELSE "model"

LastCall(op, result, backend_called) ==
    [op |-> op, outcome |-> result, backend_called |-> backend_called,
     started_before |-> sess_started, active_before |-> sess_active,
     history_before |-> sess_history]

NoCall ==
    [op |-> "none", outcome |-> "none", backend_called |-> FALSE,
     started_before |-> FALSE, active_before |-> FALSE, history_before |-> <<>>]

\* (mutant) send_message without the check of the session
NotStarted_unchecked(active) == FALSE

\* openai/session.py:80-81, vertexai/session.py:82-83
NotStarted(active) == ~active

\* openai/session.py:61-63, vertexai/session.py:57-59
StartIgnored(active) == active

\* openai/session.py:56-67  no backend is called; vertexai/session.py:52-69
\* chats.create is called and may raise
StartChatSession ==
    /\ sess_ops < MaxSessionOps
    /\ sess_ops' = sess_ops + 1
    /\ sess_started' = TRUE
    /\ IF StartIgnored(sess_active)
       THEN /\ sess_last' = LastCall("start_chat_session", "ignored", FALSE)
            /\ UNCHANGED <<sess_active, sess_history>>
       ELSE IF sess_backend = "OPENAI"
       THEN /\ sess_history' = <<>>
            /\ sess_active' = TRUE
            /\ sess_last' = LastCall("start_chat_session", "return", FALSE)
       ELSE \E created \in BOOLEAN :
              /\ sess_active' = created
              /\ sess_last' = LastCall("start_chat_session",
                                       IF created THEN "return" ELSE "raise", TRUE)
              /\ UNCHANGED sess_history
    /\ UNCHANGED <<sess_backend, sess_sent>>
    /\ UNCHANGED OtherThanSess

\* openai/session.py:69-103: the user entry is appended, then the backend
\* is called; vertexai/session.py:71-107: the backend is called, then both
\* entries are appended
SendMessage ==
    /\ sess_ops < MaxSessionOps
    /\ sess_ops' = sess_ops + 1
    /\ \E message \in Messages, answered \in BOOLEAN :
         IF NotStarted(sess_active)
         THEN /\ sess_last' = LastCall("send_message", "raise", FALSE)
              /\ UNCHANGED <<sess_history, sess_sent>>
         ELSE /\ sess_last' = LastCall("send_message",
                                       IF answered THEN "return" ELSE "raise", TRUE)
              /\ sess_sent' = IF answered
                              THEN Append(sess_sent, <<message, Reply>>)
                              ELSE sess_sent
              /\ sess_history' =
                    IF sess_backend = "OPENAI"
                    THEN IF answered
                         THEN sess_history \o <<Entry("user", message),
                                                Entry(ReplyRole(sess_backend), Reply)>>
                         ELSE Append(sess_history, Entry("user", message))
                    ELSE IF answered
                         THEN sess_history \o <<Entry("user", message),
                                                Entry(ReplyRole(sess_backend), Reply)>>
                         ELSE sess_history
    /\ UNCHANGED <<sess_backend, sess_active, sess_started>>
    /\ UNCHANGED OtherThanSess

\* openai/session.py:116-120, vertexai/session.py:117-121
ResetChatSession ==
    /\ sess_ops < MaxSessionOps
    /\ sess_ops' = sess_ops + 1
    /\ sess_history' = <<>>
    /\ sess_active' = FALSE
    /\ sess_started' = FALSE
    /\ sess_sent' = <<>>
    /\ sess_last' = LastCall("reset_chat_session", "return", FALSE)
    /\ UNCHANGED sess_backend
    /\ UNCHANGED OtherThanSess

\* openai/session.py:36-54, vertexai/session.py:30-50  the stateless call
GenerateContent ==
    /\ sess_ops < MaxSessionOps
    /\ sess_ops' = sess_ops + 1
    /\ \E answered \in BOOLEAN :
         sess_last' = LastCall("generate_content",
                               IF answered THEN "return" ELSE "raise", TRUE)
    /\ UNCHANGED <<sess_backend, sess_active, sess_history, sess_started, sess_sent>>
    /\ UNCHANGED OtherThanSess

\* openai/session.py:33-34, vertexai/session.py:27-28
InitSession ==
    /\ sess_backend \in Providers
    /\ sess_active = FALSE
    /\ sess_history = <<>>
    /\ sess_last = NoCall
    /\ sess_started = FALSE
    /\ sess_sent = <<>>
    /\ sess_ops = 0

IdleSession ==
    /\ sess_backend = "OPENAI"
    /\ sess_active = FALSE
    /\ sess_history = <<>>
    /\ sess_last = NoCall
    /\ sess_started = FALSE
    /\ sess_sent = <<>>
    /\ sess_ops = 0

\* ------------------------------------------------------------------------
\* Concurrent analysis requests and the registry's current selection
\* (src/core/llm/registry.py:21-77, src/services/orchestrator.py:111-146)
\* ------------------------------------------------------------------------
\* Each request starts a session for its structuring pass and, after the
\* pass has been awaited, one for its refinement pass, both without an
\* explicit backend. The requests interleave at the awaits with each other
\* and with register and initialize calls of other callers.
Requests == 1 .. MaxRequests

\* ProviderRegistry.start_session(persona_config) of request r: get_factory
\* decides; the factory of an initialized backend has its client.
DefaultRoutedSessionStart(r, next_pc) ==
    LET g == get_factory(None, current_provider, factories, initialized)
    IN  /\ req_routes' = [req_routes EXCEPT ![r] = Append(@, g)]
        /\ req_pc' = [req_pc EXCEPT ![r] = IF g.result = "ok" THEN next_pc
                                           ELSE "failed"]
        /\ reg_last' = RegCall("start_session", None, g.result, g.result = "ok",
                               g.factory, FALSE)
        /\ UNCHANGED <<factories, initialized, current_provider, constructions,
                       ever_registered, ever_initialized>>
        /\ UNCHANGED OtherThanReqReg

\* orchestrator.py:111-118  the structuring pass is begun
StartStructuringSession ==
    \E r \in Requests :
        /\ req_pc[r] = "start"
        /\ DefaultRoutedSessionStart(r, "structuring")

\* orchestrator.py:138-144  the structuring pass has returned, the
\* refinement pass is begun
StartRefinementSession ==
    \E r \in Requests :
        /\ req_pc[r] = "structuring"
        /\ DefaultRoutedSessionStart(r, "refining")

InitRequests ==
    /\ req_pc = [r \in Requests |-> "start"]
    /\ req_routes = [r \in Requests |-> <<>>]

IdleRequests ==
    /\ req_pc = [r \in Requests |-> "idle"]
    /\ req_routes = [r \in Requests |-> <<>>]

IdleMore ==
    IdleBaseline /\ IdleProject /\ IdleValidation /\ IdleSession /\ IdleRequests

IdleExt == IdleSchema /\ IdleOrchestrator /\ IdleMore

\* ------------------------------------------------------------------------
\* Specifications
\* ------------------------------------------------------------------------
\* The state at the first line of the loop, for a handler built with any
\* max_retries up to the bound.
InitRetry ==
    /\ variant \in {"plain", "usage"}
    /\ max_retries \in 0..MaxRetries
    /\ pc = "attempt"
    /\ attempt = 0
    /\ last_error = NoError
    /\ last_response = None
    /\ last_llm_response = NoLLMResponse
    /\ total_input_tokens = 0
    /\ total_output_tokens = 0
    /\ sleep = NoSleep
    /\ outcome = NoOutcome
    /\ logged_response = None
    /\ calls = 0
    /\ sleeps = 0
    /\ ever_parsed = FALSE
    /\ all_parse_failed = TRUE
    /\ billed_input = 0
    /\ billed_output = 0

Init == InitRetry /\ IdleSgc /\ IdleRegistry /\ IdleCt /\ IdleExt

Next == Attempt \/ Wake

Spec == Init /\ [][Next]_vars

\* ------------------------------------------------------------------------
\* The engine under a closure that raises a rate-limit-shaped error on every
\* call, for a handler with max_retries = MaxBackoffAttempt: consecutive
\* rate-limit failures at attempts 0, 1, 2, ...
RateLimitOutcomes ==
    { g \in GenOutcomes("plain") :
         /\ g.kind = "raise"
         /\ g.error \in { Err("RateLimitError", {"rate", "limit"}),
                           Err("RateLimitError", {}),
                           Err("LLMError", {"429"}),
                           Err("LLMError", {"quota"}) } }

RateLimitedAttempt == AttemptWith(RateLimitOutcomes)

InitBackoffRetry ==
    /\ variant = "plain"
    /\ max_retries = MaxBackoffAttempt
    /\ pc = "attempt"
    /\ attempt = 0
    /\ last_error = NoError
    /\ last_response = None
    /\ last_llm_response = NoLLMResponse
    /\ total_input_tokens = 0
    /\ total_output_tokens = 0
    /\ sleep = NoSleep
    /\ outcome = NoOutcome
    /\ logged_response = None
    /\ calls = 0
    /\ sleeps = 0
    /\ ever_parsed = FALSE
    /\ all_parse_failed = TRUE
    /\ billed_input = 0
    /\ billed_output = 0

InitBackoff == InitBackoffRetry /\ IdleSgc /\ IdleRegistry /\ IdleCt /\ IdleExt

NextBackoff == RateLimitedAttempt \/ Wake

SpecBackoff == InitBackoff /\ [][NextBackoff]_vars


\* ------------------------------------------------------------------------
\* One call of _safe_generate_content
InitSafeGenerate == IdleRetry /\ InitSgc /\ IdleRegistry /\ IdleCt /\ IdleExt

NextSafeGenerate == ModelCall \/ RetryResume

SpecSafeGenerate == InitSafeGenerate /\ [][NextSafeGenerate]_vars

\* ------------------------------------------------------------------------
\* The registry under any sequence of calls
InitProviderRegistry == IdleRetry /\ IdleSgc /\ InitRegistry /\ IdleCt /\ IdleExt

NextRegistry == Register \/ Initialize \/ StartSession \/ CountTokens

SpecRegistry == InitProviderRegistry /\ [][NextRegistry]_vars

\* count_tokens, called on a factory class or through the registry.
NextCountTokens == Register \/ Initialize \/ CountTokens \/ FactoryCountTokens

SpecCountTokens == InitProviderRegistry /\ [][NextCountTokens]_vars

\* start_session called MaxAdapterCalls times with one domain schema.
InitSchemaAdapter ==
    IdleRetry /\ IdleSgc /\ IdleRegistry /\ IdleCt /\ InitSchema /\ IdleOrchestrator
    /\ IdleMore

NextSchemaAdapter == OpenAIStartSession \/ VertexStartSession

SpecSchemaAdapter == InitSchemaAdapter /\ [][NextSchemaAdapter]_vars

\* One analysis request.
InitAnalysis ==
    IdleRetry /\ IdleSgc /\ IdleRegistry /\ IdleCt /\ IdleSchema /\ InitOrchestrator
    /\ IdleMore

NextAnalysis == StartStructuring \/ StructuringEnds \/ RefinementEnds

SpecAnalysis == InitAnalysis /\ [][NextAnalysis]_vars

\* select_baseline_content_id called once on any list of items.
InitBaselineSelection ==
    /\ IdleRetry /\ IdleSgc /\ IdleRegistry /\ IdleCt /\ IdleSchema /\ IdleOrchestrator
    /\ InitBaseline /\ IdleProject /\ IdleValidation /\ IdleSession /\ IdleRequests

NextBaselineSelection == SelectBaseline

SpecBaseline == InitBaselineSelection /\ [][NextBaselineSelection]_vars

\* One project_analysis request on an index that may hold an earlier result.
InitProjectAnalysis ==
    /\ IdleRetry /\ IdleSgc /\ IdleRegistry /\ IdleCt /\ IdleSchema /\ IdleOrchestrator
    /\ IdleBaseline /\ InitProject /\ IdleValidation /\ IdleSession /\ IdleRequests

NextProjectAnalysis ==
    \/ RetrieveContents
    \/ StartStructuring
    \/ StructuringEnds
    \/ RefinementEnds
    \/ PersistResult

SpecProjectAnalysis == InitProjectAnalysis /\ [][NextProjectAnalysis]_vars

\* One response validated, under either setting of STRICT_VALIDATION.
InitResponseValidation ==
    /\ IdleRetry /\ IdleSgc /\ IdleRegistry /\ IdleCt /\ IdleSchema /\ IdleOrchestrator
    /\ IdleBaseline /\ IdleProject /\ InitValidation /\ IdleSession /\ IdleRequests

NextResponseValidation == ValidateResponse

SpecValidation == InitResponseValidation /\ [][NextResponseValidation]_vars

\* Any sequence of calls on one session object of either backend.
InitChatSession ==
    /\ IdleRetry /\ IdleSgc /\ IdleRegistry /\ IdleCt /\ IdleSchema /\ IdleOrchestrator
    /\ IdleBaseline /\ IdleProject /\ IdleValidation /\ InitSession /\ IdleRequests

NextChatSession ==
    \/ StartChatSession
    \/ SendMessage
    \/ ResetChatSession
    \/ GenerateContent

SpecChatSession == InitChatSession /\ [][NextChatSession]_vars

\* Concurrent requests, interleaved with register and initialize calls.
InitConcurrentRequests ==
    /\ IdleRetry /\ IdleSgc /\ InitRegistry /\ IdleCt /\ IdleSchema /\ IdleOrchestrator
    /\ IdleBaseline /\ IdleProject /\ IdleValidation /\ IdleSession /\ InitRequests

NextConcurrentRequests ==
    \/ Register
    \/ Initialize
    \/ StartStructuringSession
    \/ StartRefinementSession

SpecConcurrentRequests == InitConcurrentRequests /\ [][NextConcurrentRequests]_vars

\* ======================================================================
\* Properties of the validation-retry engine
\* ======================================================================

\* C1: a closure whose output fails JSON parsing on every call is invoked
\* exactly max_retries + 1 times; the call then ends in the one terminal
\* error, whose message names JSON parsing; it never returns before that.
C1_ParseFailuresExhaustRetries ==
    /\ calls <= max_retries + 1
    /\ (all_parse_failed /\ calls > 0) =>
          /\ pc \in {"sleeping", "attempt", "raised"}
          /\ pc = "raised" <=> calls = max_retries + 1
          /\ pc = "raised" => (outcome.kind = "raised" /\ outcome.message = "parsing")

C1_Witness ==
    /\ all_parse_failed
    /\ pc = "raised"
    /\ max_retries >= 2
    /\ calls = max_retries + 1

\* C2 (as claimed): the terminal failure reports parsing when no attempt ever
\* parsed and validation when some attempt parsed, whatever the mix of
\* failures, and the last raw response goes with it (on the error, or in the
\* log written when it is raised).
C2_TerminalCauseByHistory ==
    pc = "raised" =>
        /\ (~ever_parsed) => outcome.message = "parsing"
        /\ ever_parsed => outcome.message = "validation"
        /\ \/ outcome.carried_response = last_response
           \/ logged_response = last_response
           \/ last_response \in {None, ""}

\* C3 (as claimed): backoff exactly for a RateLimitError or a message holding
\* quota, limit or exhausted; the fixed delay for every other retried error.
C3_BackoffOnlyForQuotaLimitExhausted ==
    pc = "sleeping" =>
        /\ sleep.kind = "backoff" <=>
              (\/ last_error.type = "RateLimitError"
               \/ last_error.markers \cap {"quota", "limit", "exhausted"} /= {})
        /\ sleep.kind /= "backoff" =>
              (sleep.kind = "fixed" /\ sleep.delay = 1 * DelayDen)

\* C3 (amended): after a failed non-final attempt the engine waits the
\* exponential backoff exactly when the error is a RateLimitError or its
\* lower-cased message holds one of 429, quota, rate, limit, exhausted; for
\* every other retried error it waits exactly delay_between_retries.
C3_BackoffIffRateLimitShaped ==
    pc = "sleeping" =>
        /\ sleep.attempt = attempt /\ attempt < max_retries
        /\ sleep.kind = "backoff" <=>
              (\/ last_error.type = "RateLimitError"
               \/ last_error.markers
                     \cap {"429", "quota", "rate", "limit", "exhausted"} /= {})
        /\ sleep.kind /= "backoff" =>
              (sleep.kind = "fixed" /\ sleep.delay = 1 * DelayDen)

C3_Witness ==
    /\ pc = "sleeping"
    /\ sleep.kind = "backoff"
    /\ last_error.type = "ValidationError"
    /\ last_error.markers = {"rate"}

\* the sum over every jitter draw of the backoff delay at attempt a
RECURSIVE DelaySum(_, _)
DelaySum(a, r) ==
    IF r < 0 THEN 0 ELSE calculate_backoff_delay(a, r) + DelaySum(a, r - 1)

ExpectedDelaySum(a) == DelaySum(a, JitterSteps - 1)

\* C4: under consecutive rate-limit failures at attempts 0, 1, 2, ... each
\* backoff delay is within 20% of min(2^attempt, 60) seconds, is at least one
\* second, and the mean delay does not decrease from one attempt to the next.
C4_BackoffWithinJitterAndFloor ==
    pc = "sleeping" =>
        LET a == sleep.attempt
            nominal == Min(Pow2(a), 60)
        IN  /\ sleep.kind = "backoff"
            /\ 100 * sleep.delay >= 80 * nominal * DelayDen
            /\ 100 * sleep.delay <= 120 * nominal * DelayDen
            /\ sleep.delay >= 1 * DelayDen
            /\ a > 0 => ExpectedDelaySum(a - 1) <= ExpectedDelaySum(a)

C4_Witness ==
    /\ pc = "sleeping"
    /\ sleep.kind = "backoff"
    /\ sleep.attempt >= 7
    /\ sleep.delay > 60 * DelayDen

\* C5: the usage returned by validate_with_retry_and_usage carries the sums
\* of the prompt and completion tokens of every response delivered during the
\* call, those of failed attempts included.
C5_UsageSumsAllAttempts ==
    (pc = "returned" /\ variant = "usage") =>
        /\ outcome.usage.prompt_tokens = billed_input
        /\ outcome.usage.completion_tokens = billed_output

C5_Witness ==
    /\ pc = "returned"
    /\ variant = "usage"
    /\ calls >= 3
    /\ outcome.usage.prompt_tokens > last_llm_response.usage.prompt_tokens
    /\ outcome.usage.completion_tokens > last_llm_response.usage.completion_tokens

\* C6 (as claimed): in the returned usage, total tokens = input + output,
\* also after retries.
C6_TotalIsInputPlusOutput ==
    (pc = "returned" /\ variant = "usage") =>
        outcome.usage.total_tokens =
            outcome.usage.prompt_tokens + outcome.usage.completion_tokens

\* C7 (as claimed): when the closure raises a policy rejection or a
\* configuration error the engine makes no further call and does not sleep.
NotRetriedTypes == {"SafetyError", "ContentFilterError", "ProviderNotFoundError",
                    "ProviderNotInitializedError"}

C7_PolicyAndConfigNotRetried ==
    last_error.type \in NotRetriedTypes =>
        /\ pc /= "sleeping"
        /\ sleeps = 0
        /\ calls = 1

\* ======================================================================
\* Properties of _safe_generate_content
\* ======================================================================

\* the completion reason of the response the body saw
SeenReason ==
    IF sgc_response.has_candidates
    THEN from_value(sgc_response.finish_reason)
    ELSE FINISH_REASON_UNSPECIFIED

\* C8 (as claimed): safety, content-filter and citation blocks raise; a
\* length-limit response with text returns the partial text; normal stop or
\* unspecified returns the text; empty text raises whatever the reason.
C8_ExtractionByCompletionReason ==
    sgc_response.kind = "response" =>
        /\ SeenReason \in {SAFETY, BLOCKLIST, PROHIBITED_CONTENT, SPII, RECITATION}
              => sgc_outcome.kind = "raise"
        /\ (SeenReason = MAX_TOKENS /\ sgc_response.text = "text")
              => (sgc_outcome.kind = "return" /\ sgc_outcome.text = "text")
        /\ (SeenReason \in {STOP, FINISH_REASON_UNSPECIFIED} /\ sgc_response.text = "text")
              => (sgc_outcome.kind = "return" /\ sgc_outcome.text = "text")
        /\ sgc_response.text = "" => sgc_outcome.kind = "raise"

\* ======================================================================
\* Properties of the ProviderRegistry
\* ======================================================================

\* the backend a routed call is aimed at
TargetOfLastCall ==
    IF reg_last.arg /= None THEN reg_last.arg ELSE current_provider

\* C9: a start_session or count_tokens call without an explicit backend goes
\* to the factory of the currently selected backend; the call fails with
\* ProviderNotInitializedError when no backend is selected or the target was
\* registered but never initialized, with ProviderNotFoundError when the
\* target was never registered, and a failed call reaches no factory method.
C9_RoutingAndFailFast ==
    reg_last.op \in {"start_session", "count_tokens"} =>
        /\ (reg_last.arg = None /\ reg_last.factory_called)
              => (current_provider /= None /\ reg_last.routed_to = current_provider)
        /\ TargetOfLastCall = None
              => reg_last.result = "ProviderNotInitializedError"
        /\ (TargetOfLastCall /= None /\ TargetOfLastCall \notin ever_registered)
              => reg_last.result = "ProviderNotFoundError"
        /\ (TargetOfLastCall \in ever_registered
            /\ TargetOfLastCall \notin ever_initialized)
              => reg_last.result = "ProviderNotInitializedError"
        /\ reg_last.result \in {"ProviderNotInitializedError", "ProviderNotFoundError"}
              => (~reg_last.factory_called /\ reg_last.routed_to = None
                  /\ ~reg_last.constructed)
        /\ reg_last.result = "ok"
              => (reg_last.factory_called /\ reg_last.routed_to = TargetOfLastCall)

C9_Witness ==
    /\ reg_last.op = "start_session"
    /\ reg_last.arg = None
    /\ reg_last.result = "ok"
    /\ reg_last.routed_to = "OPENAI"
    /\ "VERTEX_AI" \in ever_initialized

\* C10 (as claimed): the client of a backend is constructed by the first call
\* only; no later call constructs it again.
C10_ClientConstructedOnce ==
    \A p \in Providers : constructions[p] <= 1

\* ------------------------------------------------------------------------
\* C11: token counting never raises: whenever a step of the exact counting
\* fails (constructing the client, importing or running the tokenizer, the
\* backend call), count_tokens returns the factory's length-based estimate.
\* Specification: SpecCountTokens.
C11_CountTokensNeverRaises ==
    ct_last.failure /= None =>
        /\ ct_last.kind = "return"
        /\ ct_last.value = Estimate(ct_last.factory, ct_last.len)

\* ------------------------------------------------------------------------
\* Reading a schema document: the nodes below a node, and the nodes of the
\* input paired with the nodes at the same places of the output.
UnionKeys == {"allOf", "anyOf", "oneOf"}

NamedChildren(n, k) == IF k \in DOMAIN n THEN {n[k][x] : x \in DOMAIN n[k]} ELSE {}

Children(n) ==
    NamedChildren(n, "$defs") \cup NamedChildren(n, "definitions")
    \cup NamedChildren(n, "properties")
    \cup (IF "items" \in DOMAIN n THEN {n["items"]} ELSE {})
    \cup UNION {NamedChildren(n, c) : c \in UnionKeys}

RECURSIVE SubNodes(_)
SubNodes(n) == {n} \cup UNION {SubNodes(c) : c \in Children(n)}

PairedUnder(i, o, ki, ko) ==
    IF ki \in DOMAIN i /\ ko \in DOMAIN o
    THEN {<<i[ki][x], o[ko][x]>> : x \in DOMAIN i[ki] \cap DOMAIN o[ko]}
    ELSE {}

PairedChildren(i, o) ==
    PairedUnder(i, o, "$defs", "definitions") \cup PairedUnder(i, o, "properties", "properties")
    \cup (IF "items" \in DOMAIN i /\ "items" \in DOMAIN o
          THEN {<<i["items"], o["items"]>>} ELSE {})
    \cup UNION {PairedUnder(i, o, c, c) : c \in UnionKeys}

RECURSIVE NodePairs(_, _)
NodePairs(i, o) ==
    {<<i, o>>} \cup UNION {NodePairs(p[1], p[2]) : p \in PairedChildren(i, o)}

\* the strict-mode schema documents built so far
StrictSchemas ==
    IF sch_backend = "OPENAI"
    THEN {sch_outputs[i].document.json_schema.schema : i \in 1..Len(sch_outputs)}
    ELSE {}

IsObjectNode(n) == Get(n, "type", None) = "object"
DeclaredNames(n) == IF "properties" \in DOMAIN n THEN DOMAIN n["properties"] ELSE {}

\* C12: in the strict-mode schema every object-typed node, at any depth
\* (under properties, items, the shared definitions, allOf/anyOf/oneOf), has
\* additionalProperties = false and a required list holding exactly its
\* declared property names (no list, like an empty one, names none).
\* Specification: SpecSchemaAdapter.
C12_ObjectsClosedAndAllRequired ==
    \A doc \in StrictSchemas : \A n \in SubNodes(doc) :
        IsObjectNode(n) =>
            /\ Get(n, "additionalProperties", TRUE) = FALSE
            /\ Get(n, "required", {}) = DeclaredNames(n)

\* an object that declared one of its two properties required, with an open
\* object below an anyOf of an array, and an object among the definitions
C12_Witness ==
    /\ sch_backend = "OPENAI"
    /\ Len(sch_outputs) = 1
    /\ sch_original = Put(ObjectWith(ArrayOf(OpenObject)), "$defs",
                          [A |-> UnionOf("anyOf", OpenObject)])
    /\ sch_outputs[1].document.json_schema.schema["required"] = {"a", "b"}

IsPureReference(n) == DOMAIN n = {"$ref"}
KeptKeys(n) == {IF k = "$defs" THEN "definitions" ELSE k : k \in DOMAIN n}

\* C13: in the strict-mode schema a node that is purely a reference is a
\* bare reference, and a node that is not purely a reference keeps its
\* constraints (every key of the input node is a key of the output node).
\* Specification: SpecSchemaAdapter.
C13_PureReferencesBareOthersKept ==
    \A doc \in StrictSchemas : \A p \in NodePairs(sch_original, doc) :
        /\ IsPureReference(p[1]) => DOMAIN p[2] = {"$ref"}
        /\ ~IsPureReference(p[1]) => KeptKeys(p[1]) \subseteq DOMAIN p[2]

\* C14: in the strict-mode schema no $defs key and no "#/$defs/" path is
\* left at any depth, and every reference names an entry of the document's
\* definitions container.
\* Specification: SpecSchemaAdapter.
C14_ContainerRenamedReferencesResolve ==
    \A doc \in StrictSchemas : \A n \in SubNodes(doc) :
        /\ "$defs" \notin DOMAIN n
        /\ "$ref" \in DOMAIN n =>
              /\ Len(n["$ref"]) = 3
              /\ n["$ref"][1] = "#"
              /\ n["$ref"][2] = "definitions"
              /\ "definitions" \in DOMAIN doc
              /\ n["$ref"][3] \in DOMAIN doc["definitions"]

HasReferenceWithSiblings(schema) ==
    \E n \in SubNodes(schema) : "$ref" \in DOMAIN n /\ ~IsPureReference(n)

\* C15: for a domain schema holding a reference node with sibling
\* constraints the adapter raises an error, and whenever it returns a schema
\* no key of an input node is missing from the output node at its place.
\* Specification: SpecSchemaAdapter.
C15_InexpressibleConstructReported ==
    sch_backend = "OPENAI" =>
        \A i \in 1..Len(sch_outputs) :
            /\ HasReferenceWithSiblings(sch_original) => sch_outputs[i].kind = "raise"
            /\ sch_outputs[i].kind = "return" =>
                  \A p \in NodePairs(sch_original,
                                     sch_outputs[i].document.json_schema.schema) :
                      KeptKeys(p[1]) \subseteq DOMAIN p[2]

C17_MergeKeepsCategories ==
    orch_pc = "done" =>
        /\ Len(orch_result.categories) = Len(orch_base.categories)
        /\ \A i \in DOMAIN orch_base.categories :
              LET b == orch_base.categories[i]
                  f == orch_result.categories[i]
              IN  /\ f.key = b.key
                  /\ f.name = b.name
                  /\ f.display_highlight = b.display_highlight
                  /\ f.sentiment_type = b.sentiment_type
                  /\ f.positive_count = Len(b.positive_contents)
                  /\ f.negative_count = Len(b.negative_contents)
                  /\ f.highlights = b.highlights

KeysOf(categories) == [i \in DOMAIN categories |-> categories[i].key]

\* the refinement covers one of the two categories and invents a third key
C17_Witness ==
    /\ orch_pc = "done"
    /\ KeysOf(orch_base.categories) = <<"k2", "k1">>
    /\ KeysOf(orch_refinement.categories) = <<"k3", "k1">>
    /\ KeysOf(orch_result.categories) = <<"k2", "k1">>

C19_OverallSummaryFromRefinement ==
    orch_pc = "done" =>
        /\ orch_result.summary = orch_refinement.summary
        /\ orch_result.summary /= orch_base.summary

\* the refinement covers no category and its overall summary is empty
C19_Witness ==
    /\ orch_pc = "done"
    /\ Len(orch_base.categories) = 2
    /\ orch_refinement.categories = <<>>
    /\ orch_refinement.summary = ""
    /\ orch_result.summary = ""

EventsOf(pass, what) ==
    {i \in DOMAIN orch_events : orch_events[i].pass = pass /\ orch_events[i].what = what}

\* C20: the refinement pass is called only after the structuring pass has
\* returned; if structuring raises, refinement is never called and the error
\* leaves the request; if it returns, refinement is called exactly once, with
\* the summary and the categories' key, summary and keywords of its result.
\* Specification: SpecAnalysis.
C20_RefinementAfterStructuring ==
    /\ \A i \in EventsOf("refine", "call") :
          \E j \in EventsOf("structure", "return") : j < i
    /\ EventsOf("structure", "raise") /= {} =>
          /\ EventsOf("refine", "call") = {}
          /\ orch_pc = "failed"
          /\ orch_error \in PassErrors
    /\ EventsOf("structure", "return") /= {} =>
          /\ Cardinality(EventsOf("refine", "call")) = 1
          /\ \A i \in EventsOf("refine", "call") :
                LET input == orch_events[i].input
                IN  /\ input.summary = orch_base.summary
                    /\ DOMAIN input.categories = DOMAIN orch_base.categories
                    /\ \A k \in DOMAIN input.categories :
                          /\ input.categories[k].key = orch_base.categories[k].key
                          /\ input.categories[k].summary = orch_base.categories[k].summary
                          /\ input.categories[k].keywords = orch_base.categories[k].keywords

\* the refinement pass has been called with a projection of two categories
C20_Witness ==
    /\ orch_pc = "refining"
    /\ Len(orch_events) = 3
    /\ orch_events[2] = Event("structure", "return", NoAnalysis)
    /\ orch_events[3].pass = "refine"
    /\ Len(orch_events[3].input.categories) = 2

\* ======================================================================
\* Properties of project_analysis and the stored result
\* ======================================================================

\* C21: an error of analysis() leaves project_analysis as it is, with no
\* save attempted and the stored document untouched, also when structuring
\* had returned; a save is attempted only after both passes returned; and
\* once the persistence block has run, whatever the lookup and the save did,
\* the caller has the analysis result.
C21_AnalysisErrorsPropagateSaveErrorsDoNot ==
    /\ (pa_pc # "idle" /\ orch_pc = "failed") =>
          /\ ProjectOutcome = [kind |-> "raise", error |-> orch_error]
          /\ pa_saves = <<>>
          /\ pa_store = pa_stored_before
    /\ pa_saves # <<>> =>
          /\ EventsOf("structure", "return") # {}
          /\ EventsOf("refine", "return") # {}
    /\ (pa_pc \notin {"idle", "analysing"} /\ orch_pc = "done") =>
          /\ ProjectOutcome.kind = "return"
          /\ pa_return = orch_result

\* the lookup failed, the save failed, and the merged result was returned
C21_Witness ==
    /\ pa_pc = "returned"
    /\ ~pa_lookup.search_ok
    /\ Len(pa_saves) = 1
    /\ pa_store = pa_stored_before
    /\ pa_stored_before # NoDocument
    /\ pa_return = orch_result
    /\ orch_result # NoAnalysis

\* C25: a newly saved result has the version of the stored document plus
\* one, version 1 only when no document is stored for the project and
\* content type, and the creation time of the stored document.
C25_VersionFollowsStoredDocument ==
    (pa_pc = "returned" /\ pa_store # pa_stored_before) =>
        /\ pa_store.version = pa_stored_before.version + 1
        /\ pa_store.version = 1 => pa_stored_before = NoDocument
        /\ pa_stored_before # NoDocument =>
              pa_store.created_at = pa_stored_before.created_at

\* The timestamps that the items of a list carry.
StampsOf(l) ==
    ({l[i].created_at : i \in 1 .. Len(l)} \cup
     {l[i].updated_at : i \in 1 .. Len(l)}) \ {NoTime}

\* C22: for a non-empty list the selection returns the id of an item that
\* carries the most recent of all created and updated timestamps of the
\* list; when no item has a timestamp it returns the largest id.
C22_BaselineCarriesLatestTimestamp ==
    (bl_called /\ bl_contents # <<>>) =>
        IF StampsOf(bl_contents) # {}
        THEN \E i \in 1 .. Len(bl_contents) :
                /\ bl_contents[i].content_id = bl_result
                /\ \A t \in StampsOf(bl_contents) :
                      \/ t <= bl_contents[i].created_at
                      \/ t <= bl_contents[i].updated_at
        ELSE /\ \E i \in 1 .. Len(bl_contents) : bl_contents[i].content_id = bl_result
             /\ \A i \in 1 .. Len(bl_contents) : bl_contents[i].content_id <= bl_result

\* ======================================================================
\* Properties of the domain validation of a structuring result
\* ======================================================================

\* The lists of a response in which an id may be counted.
IdPlaces(r) ==
    <<r.harmful_contents, r.etc_contents>> \o
    Flatten([i \in DOMAIN r.categories |->
                <<r.categories[i].positive_contents,
                  r.categories[i].negative_contents>>])

\* C23: every accepted response has pairwise different category keys, and
\* no content id is in more than one of the harmful list, the excluded list
\* and the positive and negative lists of its categories.
C23_AcceptedResponsesHaveNoDuplicates ==
    sv_verdict = "accepted" =>
        /\ \A i, j \in DOMAIN sv_response.categories :
              sv_response.categories[i].category_key =
              sv_response.categories[j].category_key => i = j
        /\ \A p, q \in DOMAIN IdPlaces(sv_response) :
              p # q => Range(IdPlaces(sv_response)[p]) \cap
                       Range(IdPlaces(sv_response)[q]) = {}

\* ======================================================================
\* Properties of the chat sessions
\* ======================================================================

\* C24: a send_message made when start_chat_session has not been called
\* since construction or since the last reset raises and calls no backend;
\* a start_chat_session on an active session changes nothing and calls no
\* backend; after reset_chat_session the session is inactive and its
\* history is empty.
C24_SessionLifecycle ==
    /\ (sess_last.op = "send_message" /\ ~sess_last.started_before) =>
          /\ sess_last.outcome = "raise"
          /\ ~sess_last.backend_called
          /\ sess_history = sess_last.history_before
    /\ (sess_last.op = "start_chat_session" /\ sess_last.active_before) =>
          /\ sess_last.outcome = "ignored"
          /\ ~sess_last.backend_called
          /\ sess_active
          /\ sess_history = sess_last.history_before
    /\ sess_last.op = "reset_chat_session" =>
          /\ ~sess_active
          /\ sess_history = <<>>

\* a send_message on a session that is not started, after earlier calls
C24_Witness ==
    /\ sess_last.op = "send_message"
    /\ ~sess_last.started_before
    /\ sess_last.outcome = "raise"
    /\ sess_ops > 1

\* C29: the history is one user entry followed by one reply entry for each
\* answered send_message since the session began, in order; a send_message
\* that fails leaves the history as it was; generate_content changes
\* neither the history nor the active flag.
C29_HistoryHoldsAnsweredExchanges ==
    /\ sess_history =
          Flatten([i \in DOMAIN sess_sent |->
                      <<Entry("user", sess_sent[i][1]),
                        Entry(ReplyRole(sess_backend), sess_sent[i][2])>>])
    /\ (sess_last.op = "send_message" /\ sess_last.outcome = "raise") =>
          sess_history = sess_last.history_before
    /\ sess_last.op = "generate_content" =>
          /\ sess_history = sess_last.history_before
          /\ sess_active = sess_last.active_before

\* ======================================================================
\* Properties of the two retries around _safe_generate_content
\* ======================================================================

\* The classes of error the two retries are about, read off the exception:
\* transport and 5xx errors, and quota or rate-limit errors.
TransportClass(e) ==
    \/ e.type \in {"InternalServerError", "ServiceUnavailable", "DeadlineExceeded"}
    \/ e.markers \cap {"event loop is closed", "connection", "500", "502", "503", "504"} # {}

QuotaClass(e) ==
    e.type = "ResourceExhausted" \/ e.markers \cap {"429", "resource exhausted"} # {}

\* C26: the body is invoked at most InnerMaxAttempts times in one round of
\* the inner retry and in at most OuterMaxAttempts rounds, so at most 15
\* times; an error is raised to the caller only when it is the error of the
\* last invocation, a transport error only after the round's
\* InnerMaxAttempts attempts, a quota error only after OuterMaxAttempts
\* rounds; a backend error of neither class is raised by the invocation
\* that met it.
C26_SafeGenerateRetriesAreBounded ==
    /\ sgc_inner \in 1 .. InnerMaxAttempts
    /\ sgc_outer \in 1 .. OuterMaxAttempts
    /\ sgc_invocations <= (sgc_outer - 1) * InnerMaxAttempts + sgc_inner
    /\ sgc_invocations <= 15
    /\ sgc_pc = "raised" =>
          /\ sgc_outcome.kind = "raise"
          /\ TransportClass(sgc_outcome.error) => sgc_inner = InnerMaxAttempts
          /\ QuotaClass(sgc_outcome.error) => sgc_outer = OuterMaxAttempts
    /\ (sgc_outcome.kind = "raise" /\ sgc_response = NoBackendResponse
        /\ ~TransportClass(sgc_outcome.error) /\ ~QuotaClass(sgc_outcome.error)) =>
          sgc_pc = "raised"

\* fifteen invocations, each met by an error of both classes
C26_Witness ==
    /\ sgc_pc = "raised"
    /\ sgc_invocations = 15
    /\ TransportClass(sgc_outcome.error)
    /\ QuotaClass(sgc_outcome.error)

\* ======================================================================
\* Further properties of the validation-retry engine
\* ======================================================================

\* C27: when the call returns at attempt k, the closure has been invoked
\* k + 1 times and k waits have occurred, k is at most max_retries, and the
\* returned object is the one validated from the output of attempt k; when
\* the call ends in the terminal error, max_retries + 1 invocations and
\* max_retries waits have occurred, none after the last failed attempt.
C27_StopsAtFirstValidAttempt ==
    /\ pc = "returned" =>
          /\ attempt <= max_retries
          /\ calls = attempt + 1
          /\ sleeps = attempt
          /\ ParseJsonResponse(last_response).ok
          /\ ModelClass(ParseJsonResponse(last_response).data).ok
          /\ outcome.model = ModelClass(ParseJsonResponse(last_response).data).model
    /\ pc = "sleeping" => attempt < max_retries /\ sleeps = attempt + 1
    /\ pc = "raised" =>
          /\ calls = max_retries + 1
          /\ sleeps = max_retries

\* the last allowed attempt succeeds after every earlier one failed
C27_Witness ==
    /\ pc = "returned"
    /\ attempt = max_retries
    /\ attempt >= 1
    /\ calls = attempt + 1
    /\ sleeps = attempt

\* ======================================================================
\* Further properties of the ProviderRegistry
\* ======================================================================

\* C28: whenever a current backend is selected it is registered and its
\* initialized flag is set, so a start_session without an explicit backend
\* does not end in ProviderNotFoundError or ProviderNotInitializedError.
C28_CurrentBackendIsUsable ==
    /\ current_provider /= None =>
          /\ current_provider \in factories
          /\ initialized[current_provider]
    /\ (reg_last.op = "start_session" /\ reg_last.arg = None
        /\ current_provider /= None) =>
          reg_last.result \notin {"ProviderNotFoundError",
                                  "ProviderNotInitializedError"}

\* ======================================================================
\* Properties of concurrent requests
\* ======================================================================

\* C30: the session starts of one request are routed to the same backend,
\* whatever other requests and callers do in between.
C30_RequestKeepsItsBackend ==
    \A r \in Requests :
        \A i, j \in DOMAIN req_routes[r] :
            (req_routes[r][i].result = "ok" /\ req_routes[r][j].result = "ok") =>
                req_routes[r][i].factory = req_routes[r][j].factory

============================================================================
